---- MODULE Spec2Model ----
(***************************************************************************)
(* Masternode registry of MultiSys: records (CMasternode), announcements   *)
(* (CMasternodeBroadcast) and pings (CMasternodePing), as implemented in   *)
(* src/src/masternode.cpp.  Every C++ function is an operator that takes   *)
(* the world it may change (registry, seen caches, relayed inventory) and  *)
(* returns the world after the call together with its return value and    *)
(* the nDos out-parameter.                                                 *)
(***************************************************************************)
EXTENDS Integers, Sequences, FiniteSets, TLC

VARIABLES
    vMasternodes,               \* mnodeman: the registry, a list of CMasternode
    mapSeenMasternodeBroadcast, \* mnodeman: hash -> announcement seen
    mapSeenMasternodePing,      \* mnodeman: hash -> ping seen
    mapSeenSyncMNB,             \* masternodeSync: hash -> times the announcement was seen
    mapCacheBlockHashes,        \* masternode.cpp: height asked for -> block hash found
    vChain,                     \* the active chain the scoring walks, block of height k at k+1
    vecCollaterals,             \* masternode.cpp: <<height, amount>> of each collateral change
    nMoneySupply,               \* coins issued so far, in whole coins
    maxMoneyOut,                \* consensus.nMaxMoneyOut, in whole coins
    spendable,                  \* chain: outpoint -> AcceptableInputs() answer
    now,                        \* GetAdjustedTime() / GetTime()
    last,                       \* what the last handler did (return value, nDos, relay)
    hiSig,                      \* history: highest sigTime ever stored per outpoint
    pc, tmn, upd                \* threads of the concurrent admission (SpecConc)

vars == <<vMasternodes, mapSeenMasternodeBroadcast, mapSeenMasternodePing, mapSeenSyncMNB,
          spendable, mapCacheBlockHashes, vChain, now,
                   vecCollaterals, nMoneySupply, maxMoneyOut, last, hiSig, pc, tmn, upd>>

-----------------------------------------------------------------------------
(* Constants of masternode.h (not under src/): values of spec section 3.6. *)

MASTERNODE_CHECK_SECONDS == 5
MASTERNODE_MIN_MNP_SECONDS == 600
MASTERNODE_MIN_MNB_SECONDS == 300
MASTERNODE_EXPIRATION_SECONDS == 3900
MASTERNODE_REMOVAL_SECONDS == 4500
MASTERNODE_MIN_CONFIRMATIONS == 15
PING_BLOCK_AGE_MAX == 24
\* 60 * 60, the signature time window of announcements and pings
SIG_TIME_WINDOW == 3600
\* the default constructor's protocolVersion, ActiveProtocol() and the
\* announce-format threshold; only their order matters
PROTOCOL_VERSION == 3
ActiveProtocol == 2
MIN_PEER_MNANNOUNCE == 2
DefaultPort == 1

MASTERNODE_ENABLED == "ENABLED"
MASTERNODE_PRE_ENABLED == "PRE_ENABLED"
MASTERNODE_EXPIRED == "EXPIRED"
MASTERNODE_REMOVE == "REMOVE"
MASTERNODE_VIN_SPENT == "VIN_SPENT"
ActiveStates ==
    {MASTERNODE_ENABLED, MASTERNODE_PRE_ENABLED, MASTERNODE_EXPIRED,
     MASTERNODE_REMOVE, MASTERNODE_VIN_SPENT}

-----------------------------------------------------------------------------
(* Bounds of the model.                                                    *)

\* the clock's first value; every other time is an offset from it
Base == 10000
\* height of the active chain's tip
TipHeight == 60
\* the supply cap, in whole coins
CapCoins == 5000000

Outpoints == {"o1", "o2"}
\* the clock's values: Tick moves it forward through these
Times == {Base, Base + 400, Base + 4501, Base + 5101}

-----------------------------------------------------------------------------
(* The chain, as far as pings and checks read it.                          *)

\* hash of the active chain's block at height h
MainHash(h) == 1000 + h
chainActive == [h \in 0..TipHeight |-> MainHash(h)]
ChainHeight == TipHeight
\* a block that is known but was reorganised away, and a hash nobody knows
StaleHash == 2000 + (TipHeight - 5)
UnknownHash == 9000 + 999
\* mapBlockIndex: hash -> height of every block in the index
mapBlockIndex ==
    [b \in {MainHash(h) : h \in 0..TipHeight} \cup {StaleHash} |->
        IF b = StaleHash THEN TipHeight - 5 ELSE b - 1000]
\* chainActive.Contains(pindex)
Contains(b) == chainActive[mapBlockIndex[b]] = b

\* consensus.mBurnAddresses: collateral key -> height from which it is burned
mBurnAddresses == [k \in {"cBurn"} |-> 10]
\* time of the block in which the collateral got MASTERNODE_MIN_CONFIRMATIONS
ConfBlockTime(vin) == Base

\* this node's own masternode identity (activeMasternode, fMasterNode)
fMasterNode == TRUE
activeMasternode == [vin |-> "o2", pubKeyMasternode |-> "mOwn"]

-----------------------------------------------------------------------------
(* Messages and records.                                                   *)

\* CMasternodePing(): the null ping
NullPing == [vin |-> "none", sigTime |-> 0, blockHash |-> 0, signer |-> "none"]
IsNull(mnp) == mnp = NullPing

\* CMasternodePing::GetHash (MESS_VER_HASH, no salt)
MnpGetHash(mnp) == <<mnp.vin, mnp.blockHash, mnp.sigTime>>
\* CMasternodeBroadcast::GetHash: sigTime and collateral pubkey only
MnbGetHash(mnb) == <<mnb.sigTime, mnb.pubKeyCollateralAddress>>

\* CMasternodePing::CheckSignature(pubkey): the ping's vchSig was made by pubkey
MnpCheckSignature(mnp, pubKey) == mnp.signer = pubKey
\* CMasternodeBroadcast::CheckSignature: vchSig was made by the collateral key
\* over this announcement's sigTime
MnbCheckSignature(mnb) == mnb.vchSig = <<mnb.pubKeyCollateralAddress, mnb.sigTime>>
\* size of GetScriptForDestination(pubKey.GetID())
ScriptSize(pubKey) == IF pubKey = "kBad" THEN 0 ELSE 25
\* CService: ip class and port
IsLocalAddr(addr) == addr.ip = "lan"

\* CMasternode(const CMasternode&) applied to an announcement: the record that
\* CheckInputsAndAdd stores.  activeState is the default constructor's.
MasternodeFromBroadcast(mnb) ==
    [vin |-> mnb.vin, addr |-> mnb.addr,
     pubKeyCollateralAddress |-> mnb.pubKeyCollateralAddress,
     pubKeyMasternode |-> mnb.pubKeyMasternode,
     activeState |-> MASTERNODE_ENABLED,
     sigTime |-> mnb.sigTime, vchSig |-> mnb.vchSig,
     lastPing |-> mnb.lastPing, protocolVersion |-> mnb.protocolVersion,
     lastTimeChecked |-> 0]

\* the record has no unit-test flag set
unitTest == FALSE

-----------------------------------------------------------------------------
(* mnodeman (masternodeman.cpp is not under src/): spec section 4.2.       *)

RECURSIVE FindFrom(_, _, _)
FindFrom(reg, vin, i) ==
    IF i > Len(reg) THEN 0
    ELSE IF reg[i].vin = vin THEN i
    ELSE FindFrom(reg, vin, i + 1)
\* find(outpoint): index of the record, 0 for NULL
Find(reg, vin) == FindFrom(reg, vin, 1)
\* add(record): insert; fails if the outpoint is already present
Add(reg, mn) == IF Find(reg, mn.vin) = 0 THEN Append(reg, mn) ELSE reg
\* remove(outpoint)
Remove(reg, vin) == SelectSeq(reg, LAMBDA r : r.vin # vin)

\* CMasternode::IsPingedWithin(seconds, now): "ping_age > seconds" is its negation
IsPingedWithin(mn, seconds, t) ==
    IF IsNull(mn.lastPing) THEN FALSE ELSE t - mn.lastPing.sigTime <= seconds
\* CMasternode::IsBroadcastedWithin(seconds)
IsBroadcastedWithin(mn, seconds, t) == t - mn.sigTime <= seconds
\* CMasternode::IsEnabled
IsEnabled(mn) == mn.activeState = MASTERNODE_ENABLED

-----------------------------------------------------------------------------
(* CMasternode::Check.  Returns every outcome the call can have: the       *)
(* shutdown flag and the try-lock of cs_main are decided outside this      *)
(* file, so both answers are outcomes.  exit names the return taken.       *)

\* the collateral key is on the burn list below the current height
IsBurned(mn) ==
    /\ DOMAIN mBurnAddresses # {}
    /\ mn.pubKeyCollateralAddress \in DOMAIN mBurnAddresses
    /\ mBurnAddresses[mn.pubKeyCollateralAddress] < ChainHeight

\* Check's last step without the scan of the burn addresses
CheckLocked_BurnIgnored(m1, sp) ==
    IF ~sp[m1.vin]
    THEN [mn |-> [m1 EXCEPT !.activeState = MASTERNODE_VIN_SPENT], exit |-> "inputs"]
    ELSE [mn |-> [m1 EXCEPT !.activeState = MASTERNODE_ENABLED], exit |-> "enabled"]

CheckLocked(m1, sp) ==
    IF ~sp[m1.vin]
    THEN [mn |-> [m1 EXCEPT !.activeState = MASTERNODE_VIN_SPENT], exit |-> "inputs"]
    ELSE IF IsBurned(m1)
    THEN [mn |-> [m1 EXCEPT !.activeState = MASTERNODE_VIN_SPENT], exit |-> "burned"]
    ELSE [mn |-> [m1 EXCEPT !.activeState = MASTERNODE_ENABLED], exit |-> "enabled"]

\* Check without the early return for a spent collateral
CheckStates_NoSpentStop(m1, t, sp) ==
    IF ~IsPingedWithin(m1, MASTERNODE_REMOVAL_SECONDS, t)
    THEN {[mn |-> [m1 EXCEPT !.activeState = MASTERNODE_REMOVE], exit |-> "remove"]}
    ELSE IF ~IsPingedWithin(m1, MASTERNODE_EXPIRATION_SECONDS, t)
    THEN {[mn |-> [m1 EXCEPT !.activeState = MASTERNODE_EXPIRED], exit |-> "expired"]}
    ELSE IF m1.lastPing.sigTime - m1.sigTime < MASTERNODE_MIN_MNP_SECONDS
    THEN {[mn |-> [m1 EXCEPT !.activeState = MASTERNODE_PRE_ENABLED], exit |-> "preenabled"]}
    ELSE {[mn |-> m1, exit |-> "nolock"], CheckLocked(m1, sp)}

\* Check without the pre-enabled guard
CheckStates_NoPreEnabled(m1, t, sp) ==
    IF m1.activeState = MASTERNODE_VIN_SPENT
    THEN {[mn |-> m1, exit |-> "spent"]}
    ELSE IF ~IsPingedWithin(m1, MASTERNODE_REMOVAL_SECONDS, t)
    THEN {[mn |-> [m1 EXCEPT !.activeState = MASTERNODE_REMOVE], exit |-> "remove"]}
    ELSE IF ~IsPingedWithin(m1, MASTERNODE_EXPIRATION_SECONDS, t)
    THEN {[mn |-> [m1 EXCEPT !.activeState = MASTERNODE_EXPIRED], exit |-> "expired"]}
    ELSE {[mn |-> m1, exit |-> "nolock"], CheckLocked(m1, sp)}

\* Check testing the expiration threshold before the removal threshold
CheckStates_ExpiredFirst(m1, t, sp) ==
    IF m1.activeState = MASTERNODE_VIN_SPENT
    THEN {[mn |-> m1, exit |-> "spent"]}
    ELSE IF ~IsPingedWithin(m1, MASTERNODE_EXPIRATION_SECONDS, t)
    THEN {[mn |-> [m1 EXCEPT !.activeState = MASTERNODE_EXPIRED], exit |-> "expired"]}
    ELSE IF ~IsPingedWithin(m1, MASTERNODE_REMOVAL_SECONDS, t)
    THEN {[mn |-> [m1 EXCEPT !.activeState = MASTERNODE_REMOVE], exit |-> "remove"]}
    ELSE IF m1.lastPing.sigTime - m1.sigTime < MASTERNODE_MIN_MNP_SECONDS
    THEN {[mn |-> [m1 EXCEPT !.activeState = MASTERNODE_PRE_ENABLED], exit |-> "preenabled"]}
    ELSE {[mn |-> m1, exit |-> "nolock"], CheckLocked(m1, sp)}

CheckStates(m1, t, sp) ==
    IF m1.activeState = MASTERNODE_VIN_SPENT
    THEN {[mn |-> m1, exit |-> "spent"]}
    ELSE IF ~IsPingedWithin(m1, MASTERNODE_REMOVAL_SECONDS, t)
    THEN {[mn |-> [m1 EXCEPT !.activeState = MASTERNODE_REMOVE], exit |-> "remove"]}
    ELSE IF ~IsPingedWithin(m1, MASTERNODE_EXPIRATION_SECONDS, t)
    THEN {[mn |-> [m1 EXCEPT !.activeState = MASTERNODE_EXPIRED], exit |-> "expired"]}
    ELSE IF m1.lastPing.sigTime - m1.sigTime < MASTERNODE_MIN_MNP_SECONDS
    THEN {[mn |-> [m1 EXCEPT !.activeState = MASTERNODE_PRE_ENABLED], exit |-> "preenabled"]}
    ELSE IF ~unitTest
    THEN {[mn |-> m1, exit |-> "nolock"], CheckLocked(m1, sp)}
    ELSE {[mn |-> [m1 EXCEPT !.activeState = MASTERNODE_ENABLED], exit |-> "enabled"]}

\* Check stamping lastTimeChecked before it looks at the shutdown flag
Check_StampFirst(mn, forceCheck, t, sp) ==
    {[mn |-> [mn EXCEPT !.lastTimeChecked = t], exit |-> "shutdown"]} \cup
    ( IF ~forceCheck /\ (t - mn.lastTimeChecked < MASTERNODE_CHECK_SECONDS)
      THEN {[mn |-> mn, exit |-> "ratelimit"]}
      ELSE CheckStates([mn EXCEPT !.lastTimeChecked = t], t, sp) )

Check(mn, forceCheck, t, sp) ==
    {[mn |-> mn, exit |-> "shutdown"]} \cup
    ( IF ~forceCheck /\ (t - mn.lastTimeChecked < MASTERNODE_CHECK_SECONDS)
      THEN {[mn |-> mn, exit |-> "ratelimit"]}
      ELSE CheckStates([mn EXCEPT !.lastTimeChecked = t], t, sp) )

-----------------------------------------------------------------------------
(* The world a handler changes, and what it returns.                       *)
(*   reg      mnodeman's records                                           *)
(*   seenMnb  mnodeman.mapSeenMasternodeBroadcast                           *)
(*   seenMnp  mnodeman.mapSeenMasternodePing                                *)
(*   seenSync masternodeSync.mapSeenSyncMNB                                *)
(*   depth    what GetCoinDepthAtHeight answered, -1 when it was not asked *)
(*   relay    inventory handed to g_connman->RelayInv, in order            *)
(*   checks   the exits of the Check calls made, in order                  *)
(*   hotCold  activeMasternode.EnableHotColdMasterNode was called          *)

World(reg, seenMnb, seenMnp) ==
    [reg |-> reg, seenMnb |-> seenMnb, seenMnp |-> seenMnp, seenSync |-> <<>>,
     relay |-> <<>>, checks |-> <<>>, hotCold |-> FALSE, depth |-> -1]

Result(w, ret, nDos, why) == [w |-> w, ret |-> ret, nDos |-> nDos, why |-> why]

\* std::map::insert: keeps the entry already stored under the key
MapInsert(m, k, v) ==
    IF k \in DOMAIN m THEN m ELSE [x \in DOMAIN m \cup {k} |-> IF x = k THEN v ELSE m[x]]
\* std::map::erase
MapErase(m, k) == [x \in DOMAIN m \ {k} |-> m[x]]

-----------------------------------------------------------------------------
(* CMasternodePing::CheckAndUpdate                                         *)

\* applying a ping without refreshing the announcement kept in the seen cache
MnpApply_NoRefresh(w, i, mnp, nDos, t, sp) ==
    LET m1 == [w.reg[i] EXCEPT !.lastPing = mnp]
    IN  { LET w1 == [w EXCEPT !.reg[i] = c.mn, !.checks = Append(@, c.exit)]
          IN  IF ~IsEnabled(c.mn)
              THEN Result(w1, FALSE, nDos, "mnp-notenabled-after")
              ELSE Result([w1 EXCEPT !.relay = Append(@, <<"mnp", MnpGetHash(mnp)>>)],
                          TRUE, nDos, "mnp-ok")
          : c \in Check(m1, TRUE, t, sp) }

\* lines 1107-1122: store the ping, refresh the seen announcement, Check(true), relay
MnpApply(w, i, mnp, nDos, t, sp) ==
    LET m1 == [w.reg[i] EXCEPT !.lastPing = mnp]
        hash == MnbGetHash(m1)
        seen1 == IF hash \in DOMAIN w.seenMnb
                 THEN [w.seenMnb EXCEPT ![hash].lastPing = mnp]
                 ELSE w.seenMnb
    IN  { LET w1 == [w EXCEPT !.reg[i] = c.mn, !.seenMnb = seen1,
                              !.checks = Append(@, c.exit)]
          IN  IF ~IsEnabled(c.mn)
              THEN Result(w1, FALSE, nDos, "mnp-notenabled-after")
              ELSE Result([w1 EXCEPT !.relay = Append(@, <<"mnp", MnpGetHash(mnp)>>)],
                          TRUE, nDos, "mnp-ok")
          : c \in Check(m1, TRUE, t, sp) }

\* the block checks of a ping without the bound on the block's depth
MnpVerify_NoDepth(w, i, mnp, nDos, isSignatureValid, t, sp) ==
    IF ~isSignatureValid
    THEN {Result(w, FALSE, 33, "mnp-sig")}
    ELSE IF mnp.blockHash \notin DOMAIN mapBlockIndex
    THEN {Result(w, FALSE, nDos, "mnp-noblock")}
    ELSE IF ~Contains(mnp.blockHash)
    THEN {Result(w, FALSE, nDos, "mnp-oldblock")}
    ELSE MnpApply(w, i, mnp, nDos, t, sp)

\* lines 1083-1105: signature and block hash of a ping that is not too early
MnpVerify(w, i, mnp, nDos, isSignatureValid, t, sp) ==
    IF ~isSignatureValid
    THEN {Result(w, FALSE, 33, "mnp-sig")}
    ELSE IF mnp.blockHash \notin DOMAIN mapBlockIndex
    THEN {Result(w, FALSE, nDos, "mnp-noblock")}
    ELSE IF ~Contains(mnp.blockHash)
            \/ ChainHeight - mapBlockIndex[mnp.blockHash] > PING_BLOCK_AGE_MAX
    THEN {Result(w, FALSE, nDos, "mnp-oldblock")}
    ELSE MnpApply(w, i, mnp, nDos, t, sp)

\* ping admission without the minimum spacing between pings
MnpCheckAndUpdate_NoSpacing(w, mnp, nDos, fRequireEnabled, fCheckSigTimeOnly, t, sp) ==
    IF mnp.sigTime > t + SIG_TIME_WINDOW
    THEN {Result(w, FALSE, 1, "mnp-future")}
    ELSE IF mnp.sigTime <= t - SIG_TIME_WINDOW
    THEN {Result(w, FALSE, 1, "mnp-past")}
    ELSE
    LET i == Find(w.reg, mnp.vin)
        isMasternodeFound == i # 0
        isSignatureValid ==
            isMasternodeFound /\ MnpCheckSignature(mnp, w.reg[i].pubKeyMasternode)
    IN  IF fCheckSigTimeOnly
        THEN IF isMasternodeFound /\ ~isSignatureValid
             THEN {Result(w, FALSE, 33, "mnp-sig")}
             ELSE {Result(w, TRUE, nDos, "mnp-sigtime-ok")}
        ELSE IF isMasternodeFound /\ w.reg[i].protocolVersion >= ActiveProtocol
        THEN IF fRequireEnabled /\ ~IsEnabled(w.reg[i])
             THEN {Result(w, FALSE, nDos, "mnp-notenabled")}
             ELSE MnpVerify(w, i, mnp, nDos, isSignatureValid, t, sp)
        ELSE {Result(w, FALSE, nDos, "mnp-nomn")}

\* ping admission whose signature-time-only mode demands a stored record
MnpCheckAndUpdate_NeedsRecord(w, mnp, nDos, fRequireEnabled, fCheckSigTimeOnly, t, sp) ==
    IF mnp.sigTime > t + SIG_TIME_WINDOW
    THEN {Result(w, FALSE, 1, "mnp-future")}
    ELSE IF mnp.sigTime <= t - SIG_TIME_WINDOW
    THEN {Result(w, FALSE, 1, "mnp-past")}
    ELSE
    LET i == Find(w.reg, mnp.vin)
        isMasternodeFound == i # 0
        isSignatureValid ==
            isMasternodeFound /\ MnpCheckSignature(mnp, w.reg[i].pubKeyMasternode)
    IN  IF fCheckSigTimeOnly
        THEN IF ~isSignatureValid
             THEN {Result(w, FALSE, 33, "mnp-sig")}
             ELSE {Result(w, TRUE, nDos, "mnp-sigtime-ok")}
        ELSE IF isMasternodeFound /\ w.reg[i].protocolVersion >= ActiveProtocol
        THEN IF fRequireEnabled /\ ~IsEnabled(w.reg[i])
             THEN {Result(w, FALSE, nDos, "mnp-notenabled")}
             ELSE IF ~IsPingedWithin(w.reg[i], MASTERNODE_MIN_MNP_SECONDS - 60, mnp.sigTime)
             THEN MnpVerify(w, i, mnp, nDos, isSignatureValid, t, sp)
             ELSE {Result(w, FALSE, nDos, "mnp-tooearly")}
        ELSE {Result(w, FALSE, nDos, "mnp-nomn")}

\* ping admission verifying the signature before the spacing between pings
MnpCheckAndUpdate_SigFirst(w, mnp, nDos, fRequireEnabled, fCheckSigTimeOnly, t, sp) ==
    IF mnp.sigTime > t + SIG_TIME_WINDOW
    THEN {Result(w, FALSE, 1, "mnp-future")}
    ELSE IF mnp.sigTime <= t - SIG_TIME_WINDOW
    THEN {Result(w, FALSE, 1, "mnp-past")}
    ELSE
    LET i == Find(w.reg, mnp.vin)
        isMasternodeFound == i # 0
        isSignatureValid ==
            isMasternodeFound /\ MnpCheckSignature(mnp, w.reg[i].pubKeyMasternode)
    IN  IF fCheckSigTimeOnly
        THEN IF isMasternodeFound /\ ~isSignatureValid
             THEN {Result(w, FALSE, 33, "mnp-sig")}
             ELSE {Result(w, TRUE, nDos, "mnp-sigtime-ok")}
        ELSE IF isMasternodeFound /\ w.reg[i].protocolVersion >= ActiveProtocol
        THEN IF fRequireEnabled /\ ~IsEnabled(w.reg[i])
             THEN {Result(w, FALSE, nDos, "mnp-notenabled")}
             ELSE IF ~isSignatureValid
             THEN {Result(w, FALSE, 33, "mnp-sig")}
             ELSE IF ~IsPingedWithin(w.reg[i], MASTERNODE_MIN_MNP_SECONDS - 60, mnp.sigTime)
             THEN MnpVerify(w, i, mnp, nDos, isSignatureValid, t, sp)
             ELSE {Result(w, FALSE, nDos, "mnp-tooearly")}
        ELSE {Result(w, FALSE, nDos, "mnp-nomn")}

\* CheckAndUpdate dropping the ping of a record that is not enabled whatever
\* fRequireEnabled says
MnpCheckAndUpdate_EnabledOnly(w, mnp, nDos, fRequireEnabled, fCheckSigTimeOnly, t, sp) ==
    IF mnp.sigTime > t + SIG_TIME_WINDOW
    THEN {Result(w, FALSE, 1, "mnp-future")}
    ELSE IF mnp.sigTime <= t - SIG_TIME_WINDOW
    THEN {Result(w, FALSE, 1, "mnp-past")}
    ELSE
    LET i == Find(w.reg, mnp.vin)
        isMasternodeFound == i # 0
        isSignatureValid ==
            isMasternodeFound /\ MnpCheckSignature(mnp, w.reg[i].pubKeyMasternode)
    IN  IF fCheckSigTimeOnly
        THEN IF isMasternodeFound /\ ~isSignatureValid
             THEN {Result(w, FALSE, 33, "mnp-sig")}
             ELSE {Result(w, TRUE, nDos, "mnp-sigtime-ok")}
        ELSE IF isMasternodeFound /\ w.reg[i].protocolVersion >= ActiveProtocol
        THEN IF ~IsEnabled(w.reg[i])
             THEN {Result(w, FALSE, nDos, "mnp-notenabled")}
             ELSE IF ~IsPingedWithin(w.reg[i], MASTERNODE_MIN_MNP_SECONDS - 60, mnp.sigTime)
             THEN MnpVerify(w, i, mnp, nDos, isSignatureValid, t, sp)
             ELSE {Result(w, FALSE, nDos, "mnp-tooearly")}
        ELSE {Result(w, FALSE, nDos, "mnp-nomn")}

MnpCheckAndUpdate(w, mnp, nDos, fRequireEnabled, fCheckSigTimeOnly, t, sp) ==
    IF mnp.sigTime > t + SIG_TIME_WINDOW
    THEN {Result(w, FALSE, 1, "mnp-future")}
    ELSE IF mnp.sigTime <= t - SIG_TIME_WINDOW
    THEN {Result(w, FALSE, 1, "mnp-past")}
    ELSE
    LET i == Find(w.reg, mnp.vin)
        isMasternodeFound == i # 0
        isSignatureValid ==
            isMasternodeFound /\ MnpCheckSignature(mnp, w.reg[i].pubKeyMasternode)
    IN  IF fCheckSigTimeOnly
        THEN IF isMasternodeFound /\ ~isSignatureValid
             THEN {Result(w, FALSE, 33, "mnp-sig")}
             ELSE {Result(w, TRUE, nDos, "mnp-sigtime-ok")}
        ELSE IF isMasternodeFound /\ w.reg[i].protocolVersion >= ActiveProtocol
        THEN IF fRequireEnabled /\ ~IsEnabled(w.reg[i])
             THEN {Result(w, FALSE, nDos, "mnp-notenabled")}
             ELSE IF ~IsPingedWithin(w.reg[i], MASTERNODE_MIN_MNP_SECONDS - 60, mnp.sigTime)
             THEN MnpVerify(w, i, mnp, nDos, isSignatureValid, t, sp)
             ELSE {Result(w, FALSE, nDos, "mnp-tooearly")}
        ELSE {Result(w, FALSE, nDos, "mnp-nomn")}

-----------------------------------------------------------------------------
(* CMasternode::UpdateFromNewBroadcast, on the record at index i           *)

\* UpdateFromNewBroadcast taking the announcement's ping whatever its check says
UpdateFromNewBroadcast_AlwaysPing(w, i, mnb, t, sp) ==
    IF mnb.sigTime > w.reg[i].sigTime
    THEN
    LET m1 == [w.reg[i] EXCEPT
                  !.pubKeyMasternode = mnb.pubKeyMasternode,
                  !.pubKeyCollateralAddress = mnb.pubKeyCollateralAddress,
                  !.sigTime = mnb.sigTime,
                  !.vchSig = mnb.vchSig,
                  !.protocolVersion = mnb.protocolVersion,
                  !.addr = mnb.addr,
                  !.lastTimeChecked = 0]
        w1 == [w EXCEPT !.reg[i] = m1]
        pinged == IF IsNull(mnb.lastPing)
                  THEN {Result(w1, TRUE, 0, "null")}
                  ELSE MnpCheckAndUpdate(w1, mnb.lastPing, 0, FALSE, FALSE, t, sp)
    IN  { [w |-> [r.w EXCEPT
                    !.reg[i].lastPing = mnb.lastPing,
                    !.seenMnp = MapInsert(@, MnpGetHash(mnb.lastPing), mnb.lastPing)],
           ret |-> TRUE]
          : r \in pinged }
    ELSE {[w |-> w, ret |-> FALSE]}

UpdateFromNewBroadcast(w, i, mnb, t, sp) ==
    IF mnb.sigTime > w.reg[i].sigTime
    THEN
    LET m1 == [w.reg[i] EXCEPT
                  !.pubKeyMasternode = mnb.pubKeyMasternode,
                  !.pubKeyCollateralAddress = mnb.pubKeyCollateralAddress,
                  !.sigTime = mnb.sigTime,
                  !.vchSig = mnb.vchSig,
                  !.protocolVersion = mnb.protocolVersion,
                  !.addr = mnb.addr,
                  !.lastTimeChecked = 0]
        w1 == [w EXCEPT !.reg[i] = m1]
        pinged == IF IsNull(mnb.lastPing)
                  THEN {Result(w1, TRUE, 0, "null")}
                  ELSE MnpCheckAndUpdate(w1, mnb.lastPing, 0, FALSE, FALSE, t, sp)
    IN  { [w |-> IF r.ret
                 THEN [r.w EXCEPT
                          !.reg[i].lastPing = mnb.lastPing,
                          !.seenMnp = MapInsert(@, MnpGetHash(mnb.lastPing), mnb.lastPing)]
                 ELSE r.w,
           ret |-> TRUE]
          : r \in pinged }
    ELSE {[w |-> w, ret |-> FALSE]}

-----------------------------------------------------------------------------
(* CMasternodeBroadcast::CheckAndUpdate                                    *)

\* lastPing.CheckAndUpdate(nDos, false, true): one outcome, it runs no Check
MnpCheckSigTimeOnly(w, mnp, nDos, t, sp) ==
    CHOOSE r \in MnpCheckAndUpdate(w, mnp, nDos, FALSE, TRUE, t, sp) : TRUE

\* lines 885-897: the existing record is enabled and older than the announcement
MnbUpdateExisting(w, i, mnb, nDos, t, sp) ==
    IF /\ w.reg[i].pubKeyCollateralAddress = mnb.pubKeyCollateralAddress
       /\ ~IsBroadcastedWithin(w.reg[i], MASTERNODE_MIN_MNB_SECONDS, t)
    THEN UNION {
           IF u.ret
           THEN { LET w1 == [u.w EXCEPT !.reg[i] = c.mn, !.checks = Append(@, c.exit)]
                  IN  IF IsEnabled(c.mn)
                      THEN Result([w1 EXCEPT !.relay = Append(@, <<"mnb", MnbGetHash(mnb)>>)],
                                  TRUE, nDos, "mnb-updated")
                      ELSE Result(w1, TRUE, nDos, "mnb-updated")
                  : c \in Check(u.w.reg[i], FALSE, t, sp) }
           ELSE {Result(u.w, TRUE, nDos, "mnb-not-newer")}
           : u \in UpdateFromNewBroadcast(w, i, mnb, t, sp) }
    ELSE {Result(w, TRUE, nDos, "mnb-no-update")}

\* the existing-record rules accepting an announcement of equal sigTime
MnbCheckExisting_Strict(w, mnb, nDos, t, sp) ==
    LET i == Find(w.reg, mnb.vin)
    IN  IF i = 0
        THEN {Result(w, TRUE, nDos, "mnb-new")}
        ELSE IF w.reg[i].sigTime > mnb.sigTime
        THEN {Result(w, FALSE, nDos, "mnb-sigtime")}
        ELSE IF ~IsEnabled(w.reg[i])
        THEN {Result(w, TRUE, nDos, "mnb-not-enabled")}
        ELSE MnbUpdateExisting(w, i, mnb, nDos, t, sp)

\* the existing-record rules banning the sender of a stale announcement
MnbCheckExisting_Ban(w, mnb, nDos, t, sp) ==
    LET i == Find(w.reg, mnb.vin)
    IN  IF i = 0
        THEN {Result(w, TRUE, nDos, "mnb-new")}
        ELSE IF w.reg[i].sigTime >= mnb.sigTime
        THEN {Result(w, FALSE, 100, "mnb-sigtime")}
        ELSE IF ~IsEnabled(w.reg[i])
        THEN {Result(w, TRUE, nDos, "mnb-not-enabled")}
        ELSE MnbUpdateExisting(w, i, mnb, nDos, t, sp)

\* the existing-record rules asking for the record's state before its sigTime
MnbCheckExisting_EnabledFirst(w, mnb, nDos, t, sp) ==
    LET i == Find(w.reg, mnb.vin)
    IN  IF i = 0
        THEN {Result(w, TRUE, nDos, "mnb-new")}
        ELSE IF ~IsEnabled(w.reg[i])
        THEN {Result(w, TRUE, nDos, "mnb-not-enabled")}
        ELSE IF w.reg[i].sigTime >= mnb.sigTime
        THEN {Result(w, FALSE, nDos, "mnb-sigtime")}
        ELSE MnbUpdateExisting(w, i, mnb, nDos, t, sp)

\* lines 868-883: the rules for an announcement of a known outpoint
MnbCheckExisting(w, mnb, nDos, t, sp) ==
    LET i == Find(w.reg, mnb.vin)
    IN  IF i = 0
        THEN {Result(w, TRUE, nDos, "mnb-new")}
        ELSE IF w.reg[i].sigTime >= mnb.sigTime
        THEN {Result(w, FALSE, nDos, "mnb-sigtime")}
        ELSE IF ~IsEnabled(w.reg[i])
        THEN {Result(w, TRUE, nDos, "mnb-not-enabled")}
        ELSE MnbUpdateExisting(w, i, mnb, nDos, t, sp)

\* CheckAndUpdate looking at the key sizes before anything else
MnbCheckAndUpdate_KeysFirst(w, mnb, nDos, t, sp) ==
    IF ScriptSize(mnb.pubKeyCollateralAddress) # 25
    THEN {Result(w, FALSE, 100, "mnb-pubkey")}
    ELSE IF ScriptSize(mnb.pubKeyMasternode) # 25
    THEN {Result(w, FALSE, 100, "mnb-pubkey2")}
    ELSE IF mnb.sigTime > t + SIG_TIME_WINDOW
    THEN {Result(w, FALSE, 1, "mnb-future")}
    ELSE IF IsNull(mnb.lastPing)
    THEN {Result(w, FALSE, nDos, "mnb-ping")}
    ELSE IF ~MnpCheckSigTimeOnly(w, mnb.lastPing, nDos, t, sp).ret
    THEN {Result(w, FALSE, MnpCheckSigTimeOnly(w, mnb.lastPing, nDos, t, sp).nDos, "mnb-ping")}
    ELSE IF mnb.protocolVersion < ActiveProtocol
    THEN {Result(w, FALSE, nDos, "mnb-protocol")}
    ELSE IF ~mnb.scriptSigEmpty
    THEN {Result(w, FALSE, nDos, "mnb-scriptsig")}
    ELSE IF ~MnbCheckSignature(mnb)
    THEN {Result(w, FALSE, IF mnb.protocolVersion <= MIN_PEER_MNANNOUNCE THEN 0 ELSE 100,
                 "mnb-sig")}
    ELSE IF mnb.addr.port # DefaultPort
    THEN {Result(w, FALSE, nDos, "mnb-port")}
    ELSE MnbCheckExisting(w, mnb, nDos, t, sp)

MnbCheckAndUpdate(w, mnb, nDos, t, sp) ==
    IF mnb.sigTime > t + SIG_TIME_WINDOW
    THEN {Result(w, FALSE, 1, "mnb-future")}
    ELSE IF IsNull(mnb.lastPing)
    THEN {Result(w, FALSE, nDos, "mnb-ping")}
    ELSE IF ~MnpCheckSigTimeOnly(w, mnb.lastPing, nDos, t, sp).ret
    THEN {Result(w, FALSE, MnpCheckSigTimeOnly(w, mnb.lastPing, nDos, t, sp).nDos, "mnb-ping")}
    ELSE IF mnb.protocolVersion < ActiveProtocol
    THEN {Result(w, FALSE, nDos, "mnb-protocol")}
    ELSE IF ScriptSize(mnb.pubKeyCollateralAddress) # 25
    THEN {Result(w, FALSE, 100, "mnb-pubkey")}
    ELSE IF ScriptSize(mnb.pubKeyMasternode) # 25
    THEN {Result(w, FALSE, 100, "mnb-pubkey2")}
    ELSE IF ~mnb.scriptSigEmpty
    THEN {Result(w, FALSE, nDos, "mnb-scriptsig")}
    ELSE IF ~MnbCheckSignature(mnb)
    THEN {Result(w, FALSE, IF mnb.protocolVersion <= MIN_PEER_MNANNOUNCE THEN 0 ELSE 100,
                 "mnb-sig")}
    ELSE IF mnb.addr.port # DefaultPort
    THEN {Result(w, FALSE, nDos, "mnb-port")}
    ELSE MnbCheckExisting(w, mnb, nDos, t, sp)

-----------------------------------------------------------------------------
(* CMasternodeBroadcast::CheckInputsAndAdd                                 *)

\* what pcoinsTip->GetCoinDepthAtHeight can answer around the threshold
CoinDepths == {MASTERNODE_MIN_CONFIRMATIONS - 1, MASTERNODE_MIN_CONFIRMATIONS}
\* the DoS level state.IsInvalid(nDoS) copies out when the inputs are refused
StateDoS == {0, 100}

\* lines 975-988: store the record, notify the local masternode, relay
MnbAdd(w, mnb, nDoS) ==
    LET w1 == [w EXCEPT
                 !.reg = Add(@, MasternodeFromBroadcast(mnb)),
                 !.hotCold = /\ mnb.pubKeyMasternode = activeMasternode.pubKeyMasternode
                             /\ mnb.protocolVersion = PROTOCOL_VERSION]
    IN  IF ~IsLocalAddr(mnb.addr)
        THEN Result([w1 EXCEPT !.relay = Append(@, <<"mnb", MnbGetHash(mnb)>>)],
                    TRUE, nDoS, "add-ok")
        ELSE Result(w1, TRUE, nDoS, "add-ok")

\* the collateral checks asking for one confirmation less
MnbCheckInputs_OneShort(w, mnb, nDoS, t, sp) ==
    IF ~sp[mnb.vin]
    THEN {Result(w, FALSE, d, "add-inputs") : d \in StateDoS}
    ELSE { LET wd == [w EXCEPT !.depth = depth]
           IN  IF depth < MASTERNODE_MIN_CONFIRMATIONS - 1
               THEN Result([wd EXCEPT !.seenMnb = MapErase(@, MnbGetHash(mnb)),
                                      !.seenSync = MapErase(@, MnbGetHash(mnb))],
                           FALSE, nDoS, "add-depth")
               ELSE IF ConfBlockTime(mnb.vin) > mnb.sigTime
               THEN Result(wd, FALSE, nDoS, "add-sigtime")
               ELSE MnbAdd(wd, mnb, nDoS)
           : depth \in CoinDepths }

\* lines 940-973: with cs_main held
\* depth is the answer GetCoinDepthAtHeight gave, kept for the properties
MnbCheckInputs(w, mnb, nDoS, t, sp) ==
    IF ~sp[mnb.vin]
    THEN {Result(w, FALSE, d, "add-inputs") : d \in StateDoS}
    ELSE { LET wd == [w EXCEPT !.depth = depth]
           IN  IF depth < MASTERNODE_MIN_CONFIRMATIONS
               THEN Result([wd EXCEPT !.seenMnb = MapErase(@, MnbGetHash(mnb)),
                                      !.seenSync = MapErase(@, MnbGetHash(mnb))],
                           FALSE, nDoS, "add-depth")
               ELSE IF ConfBlockTime(mnb.vin) > mnb.sigTime
               THEN Result(wd, FALSE, nDoS, "add-sigtime")
               ELSE MnbAdd(wd, mnb, nDoS)
           : depth \in CoinDepths }

\* CheckInputsAndAdd dropping the known record whatever its state
MnbReplaceAndLock_DropEnabled(w, mnb, nDoS, t, sp) ==
    LET i == Find(w.reg, mnb.vin)
        w1 == IF i # 0 THEN [w EXCEPT !.reg = Remove(@, w.reg[i].vin)] ELSE w
    IN  {Result([w1 EXCEPT !.seenMnb = MapErase(@, MnbGetHash(mnb)),
                               !.seenSync = MapErase(@, MnbGetHash(mnb))],
                FALSE, nDoS, "add-nolock")}
        \cup MnbCheckInputs(w1, mnb, nDoS, t, sp)

\* CheckInputsAndAdd leaving the record that is not enabled in the registry
MnbReplaceAndLock_NoRemove(w, mnb, nDoS, t, sp) ==
    LET i == Find(w.reg, mnb.vin)
    IN  IF i # 0 /\ IsEnabled(w.reg[i])
        THEN {Result(w, TRUE, nDoS, "add-known")}
        ELSE {Result([w EXCEPT !.seenMnb = MapErase(@, MnbGetHash(mnb)),
                               !.seenSync = MapErase(@, MnbGetHash(mnb))],
                     FALSE, nDoS, "add-nolock")}
             \cup MnbCheckInputs(w, mnb, nDoS, t, sp)

\* CheckInputsAndAdd failing to take cs_main without forgetting the hash
MnbReplaceAndLock_KeepSeen(w, mnb, nDoS, t, sp) ==
    LET i == Find(w.reg, mnb.vin)
    IN  IF i # 0 /\ IsEnabled(w.reg[i])
        THEN {Result(w, TRUE, nDoS, "add-known")}
        ELSE
        LET w1 == IF i # 0 THEN [w EXCEPT !.reg = Remove(@, w.reg[i].vin)] ELSE w
        IN  {Result(w1, FALSE, nDoS, "add-nolock")}
            \cup MnbCheckInputs(w1, mnb, nDoS, t, sp)

\* CheckInputsAndAdd failing to take cs_main and clearing the seen caches
MnbReplaceAndLock_ClearSeen(w, mnb, nDoS, t, sp) ==
    LET i == Find(w.reg, mnb.vin)
    IN  IF i # 0 /\ IsEnabled(w.reg[i])
        THEN {Result(w, TRUE, nDoS, "add-known")}
        ELSE
        LET w1 == IF i # 0 THEN [w EXCEPT !.reg = Remove(@, w.reg[i].vin)] ELSE w
        IN  {Result([w1 EXCEPT !.seenMnb = <<>>, !.seenSync = <<>>],
                    FALSE, nDoS, "add-nolock")}
            \cup MnbCheckInputs(w1, mnb, nDoS, t, sp)

\* CheckInputsAndAdd dropping the known record only once cs_main is held
MnbReplaceAndLock_RemoveAfterLock(w, mnb, nDoS, t, sp) ==
    LET i == Find(w.reg, mnb.vin)
    IN  IF i # 0 /\ IsEnabled(w.reg[i])
        THEN {Result(w, TRUE, nDoS, "add-known")}
        ELSE
        LET w1 == IF i # 0 THEN [w EXCEPT !.reg = Remove(@, w.reg[i].vin)] ELSE w
        IN  {Result([w EXCEPT !.seenMnb = MapErase(@, MnbGetHash(mnb)),
                              !.seenSync = MapErase(@, MnbGetHash(mnb))],
                    FALSE, nDoS, "add-nolock")}
            \cup MnbCheckInputs(w1, mnb, nDoS, t, sp)

\* lines 911-938: drop a known record that is not enabled, then try cs_main
MnbReplaceAndLock(w, mnb, nDoS, t, sp) ==
    LET i == Find(w.reg, mnb.vin)
    IN  IF i # 0 /\ IsEnabled(w.reg[i])
        THEN {Result(w, TRUE, nDoS, "add-known")}
        ELSE
        LET w1 == IF i # 0 THEN [w EXCEPT !.reg = Remove(@, w.reg[i].vin)] ELSE w
        IN  {Result([w1 EXCEPT !.seenMnb = MapErase(@, MnbGetHash(mnb)),
                               !.seenSync = MapErase(@, MnbGetHash(mnb))],
                    FALSE, nDoS, "add-nolock")}
            \cup MnbCheckInputs(w1, mnb, nDoS, t, sp)

MnbCheckInputsAndAdd(w, mnb, nDoS, t, sp) ==
    IF /\ fMasterNode
       /\ activeMasternode.vin # "none"
       /\ mnb.vin = activeMasternode.vin
       /\ mnb.pubKeyMasternode = activeMasternode.pubKeyMasternode
    THEN {Result(w, TRUE, nDoS, "add-ours")}
    ELSE IF IsNull(mnb.lastPing)
    THEN {Result(w, FALSE, nDoS, "add-ping")}
    ELSE IF ~MnpCheckSigTimeOnly(w, mnb.lastPing, nDoS, t, sp).ret
    THEN {Result(w, FALSE, MnpCheckSigTimeOnly(w, mnb.lastPing, nDoS, t, sp).nDos, "add-ping")}
    ELSE MnbReplaceAndLock(w, mnb, nDoS, t, sp)

\* Admission of an announcement: CheckAndUpdate with nDos = 0 and, when it
\* returns true, CheckInputsAndAdd with the same nDos.  why is CheckAndUpdate's
\* exit, whyAdd that of CheckInputsAndAdd ("none" when it was not called),
\* regAdd the records as CheckAndUpdate left them for CheckInputsAndAdd.
MnbAdmit(w, mnb, t, sp) ==
    UNION { IF r.ret
            THEN { [w |-> a.w, ret |-> a.ret, nDos |-> a.nDos,
                    why |-> r.why, whyAdd |-> a.why, regAdd |-> r.w.reg]
                   : a \in MnbCheckInputsAndAdd(r.w, mnb, r.nDos, t, sp) }
            ELSE { [w |-> r.w, ret |-> r.ret, nDos |-> r.nDos,
                    why |-> r.why, whyAdd |-> "none", regAdd |-> r.w.reg] }
            : r \in MnbCheckAndUpdate(w, mnb, 0, t, sp) }

-----------------------------------------------------------------------------
(* Messages the network delivers.                                          *)

PubAddr == [ip |-> "pub", port |-> DefaultPort]
LanAddr == [ip |-> "lan", port |-> DefaultPort]
BadPortAddr == [ip |-> "pub", port |-> DefaultPort + 1]

\* the block a fresh ping names (tip - 12), one too deep, a stale one, an unknown one
GoodBlock == MainHash(TipHeight - 12)
DeepBlock == MainHash(TipHeight - 50)

Ping(vin, st, bh, signer) ==
    [vin |-> vin, sigTime |-> st, blockHash |-> bh, signer |-> signer]

Mnb(vin, addr, ck, mk, st, sig, pv, mnp, sse) ==
    [vin |-> vin, addr |-> addr, pubKeyCollateralAddress |-> ck,
     pubKeyMasternode |-> mk, sigTime |-> st, vchSig |-> sig,
     protocolVersion |-> pv, lastPing |-> mnp, scriptSigEmpty |-> sse]

\* an announcement as Create builds it: signed by its collateral key, with a
\* ping of time pt signed by its operator key
Honest(vin, ck, mk, st, pt) ==
    Mnb(vin, PubAddr, ck, mk, st, <<ck, st>>, PROTOCOL_VERSION,
        Ping(vin, pt, GoodBlock, mk), TRUE)

AnnSigTimes == {Base - 1, Base, Base + 1, Base + 3601}

Announcements ==
    \* well-formed announcements of o1
    { Honest("o1", "c1", "m1", st, pt) : st \in AnnSigTimes, pt \in {Base, Base + 601} }
    \cup { Honest("o1", ck, "m1", st, Base) : ck \in {"c2", "cBurn"}, st \in {Base, Base + 1} }
    \cup { Honest("o1", "c1", "mOwn", Base + 1, Base) }
    \* a new operator key, the ping still signed with the old one
    \cup { [Honest("o1", "c1", "mOwn", Base + 1, Base + 601) EXCEPT !.lastPing.signer = "m1"] }
    \* one fault each
    \cup { [Honest("o1", "c1", "m1", Base + 1, Base) EXCEPT !.addr = a] : a \in {LanAddr, BadPortAddr} }
    \cup { [Honest("o1", "c1", "m1", Base + 1, Base) EXCEPT !.vchSig = <<"c2", Base + 1>>] }
    \cup { [Honest("o1", "c1", "m1", Base + 1, Base) EXCEPT !.scriptSigEmpty = FALSE] }
    \cup { [Honest("o1", "c1", "m1", Base + 1, Base) EXCEPT !.protocolVersion = 1] }
    \cup { [Honest("o1", "c1", "m1", Base + 1, Base) EXCEPT !.lastPing = q]
           : q \in {NullPing, Ping("o1", Base, GoodBlock, "mX"),
                    Ping("o1", Base - 3600, GoodBlock, "m1"),
                    Ping("o2", Base + 601, GoodBlock, "m1")} }
    \cup { Honest("o1", "kBad", "m1", Base + 1, Base), Honest("o1", "c1", "kBad", Base + 1, Base) }
    \* o2 is this node's own outpoint, announced with its own operator key
    \cup { Honest("o2", "c1", "mOwn", Base, Base) }

Pings ==
    { Ping("o1", st, GoodBlock, k)
      : st \in {Base - 3600, Base + 599, Base + 601, Base + 1200, Base + 3601},
        k \in {"m1", "mX"} }
    \cup { Ping("o1", Base + 1200, bh, "m1") : bh \in {DeepBlock, StaleHash, UnknownHash} }
    \cup { Ping("o2", Base + 601, GoodBlock, "mOwn") }

NoLast == [op |-> "none"]

Max(a, b) == IF a >= b THEN a ELSE b

\* the highest sigTime stored for each outpoint so far
HiSig(reg, hi) ==
    [o \in Outpoints |->
        IF Find(reg, o) # 0 THEN Max(hi[o], reg[Find(reg, o)].sigTime) ELSE hi[o]]

TheWorld ==
    [World(vMasternodes, mapSeenMasternodeBroadcast, mapSeenMasternodePing)
        EXCEPT !.seenSync = mapSeenSyncMNB]

-----------------------------------------------------------------------------
(* Actions.                                                                *)

Init ==
    /\ vMasternodes = <<>>
    /\ mapSeenMasternodeBroadcast = <<>>
    /\ mapSeenMasternodePing = <<>>
    /\ mapSeenSyncMNB = <<>>
    /\ mapCacheBlockHashes = <<>>
    /\ vChain = [k \in 1..(TipHeight + 1) |-> MainHash(k - 1)]
    /\ spendable = [o \in Outpoints |-> TRUE]
    /\ vecCollaterals = <<>>
    /\ nMoneySupply = 0
    /\ maxMoneyOut = CapCoins
    /\ now = Base
    /\ last = NoLast
    /\ hiSig = [o \in Outpoints |-> 0]
    /\ pc = <<>>
    /\ tmn = <<>>
    /\ upd = <<>>

Install(w) ==
    /\ vMasternodes' = w.reg
    /\ mapSeenMasternodeBroadcast' = w.seenMnb
    /\ mapSeenMasternodePing' = w.seenMnp
    /\ mapSeenSyncMNB' = w.seenSync
    /\ hiSig' = HiSig(w.reg, hiSig)

\* the network delivers an announcement: CheckAndUpdate, then CheckInputsAndAdd
AdmitMnb(mnb) ==
    /\ last = NoLast
    /\ \E r \in MnbAdmit(TheWorld, mnb, now, spendable) :
        /\ Install(r.w)
        /\ last' = [op |-> "mnb", msg |-> mnb, pre |-> TheWorld, ret |-> r.ret,
                    nDos |-> r.nDos, why |-> r.why, whyAdd |-> r.whyAdd,
                    checks |-> r.w.checks, relay |-> r.w.relay, hotCold |-> r.w.hotCold,
                    depth |-> r.w.depth, regAdd |-> r.regAdd]
    /\ UNCHANGED <<spendable, mapCacheBlockHashes, vChain, now,
                   vecCollaterals, nMoneySupply, maxMoneyOut, pc, tmn, upd>>

\* the same announcement is delivered again right after it was accepted
ReplayMnb ==
    /\ last # NoLast
    /\ last.op = "mnb"
    /\ last.ret
    /\ \E r \in MnbAdmit(TheWorld, last.msg, now, spendable) :
        /\ Install(r.w)
        /\ last' = [op |-> "replay", msg |-> last.msg, pre |-> TheWorld, ret |-> r.ret,
                    nDos |-> r.nDos, why |-> r.why, whyAdd |-> r.whyAdd,
                    checks |-> r.w.checks, relay |-> r.w.relay, hotCold |-> r.w.hotCold,
                    depth |-> r.w.depth, regAdd |-> r.regAdd]
    /\ UNCHANGED <<spendable, mapCacheBlockHashes, vChain, now,
                   vecCollaterals, nMoneySupply, maxMoneyOut, pc, tmn, upd>>

\* the network delivers a ping: CheckAndUpdate(nDos = 0, fRequireEnabled, fCheckSigTimeOnly)
AdmitMnp(mnp, fRequireEnabled, fCheckSigTimeOnly) ==
    /\ last = NoLast
    /\ \E r \in MnpCheckAndUpdate(TheWorld, mnp, 0, fRequireEnabled, fCheckSigTimeOnly,
                                  now, spendable) :
        /\ Install(r.w)
        /\ last' = [op |-> "mnp", msg |-> mnp, pre |-> TheWorld, ret |-> r.ret,
                    nDos |-> r.nDos, why |-> r.why,
                    fRequireEnabled |-> fRequireEnabled,
                    fCheckSigTimeOnly |-> fCheckSigTimeOnly,
                    checks |-> r.w.checks, relay |-> r.w.relay]
    /\ UNCHANGED <<spendable, mapCacheBlockHashes, vChain, now,
                   vecCollaterals, nMoneySupply, maxMoneyOut, pc, tmn, upd>>

\* the registry's maintenance calls Check on a record
DoCheck(i, forceCheck) ==
    /\ last = NoLast
    /\ i \in 1..Len(vMasternodes)
    /\ \E c \in Check(vMasternodes[i], forceCheck, now, spendable) :
        /\ vMasternodes' = [vMasternodes EXCEPT ![i] = c.mn]
        /\ last' = [op |-> "check", vin |-> vMasternodes[i].vin, pre |-> TheWorld,
                    forceCheck |-> forceCheck, exit |-> c.exit]
    /\ UNCHANGED <<mapSeenMasternodeBroadcast, mapSeenMasternodePing, mapSeenSyncMNB,
                   spendable, mapCacheBlockHashes, vChain, now,
                   vecCollaterals, nMoneySupply, maxMoneyOut, hiSig, pc, tmn, upd>>

\* the handler has returned to the message loop
Return ==
    /\ last # NoLast
    /\ last' = NoLast
    /\ UNCHANGED <<vMasternodes, mapSeenMasternodeBroadcast, mapSeenMasternodePing, mapSeenSyncMNB,
                   spendable, mapCacheBlockHashes, vChain, now,
                   vecCollaterals, nMoneySupply, maxMoneyOut, hiSig, pc, tmn, upd>>

\* time passes
Tick ==
    /\ last = NoLast
    /\ \E t \in Times : t > now /\ now' = t
    /\ UNCHANGED <<vecCollaterals, nMoneySupply, maxMoneyOut,
                   vMasternodes, mapSeenMasternodeBroadcast, mapSeenMasternodePing, mapSeenSyncMNB,
                   spendable, mapCacheBlockHashes, vChain, last, hiSig, pc, tmn, upd>>

\* the collateral of an outpoint is spent, or a reorganisation unspends it
ChainUpdate(o) ==
    /\ last = NoLast
    /\ spendable' = [spendable EXCEPT ![o] = ~@]
    /\ UNCHANGED <<vMasternodes, mapSeenMasternodeBroadcast, mapSeenMasternodePing,
                   mapSeenSyncMNB, mapCacheBlockHashes, vChain,
                   now,
                   vecCollaterals, nMoneySupply, maxMoneyOut, last, hiSig, pc, tmn, upd>>

Next ==
    \/ \E mnb \in Announcements : AdmitMnb(mnb)
    \/ ReplayMnb
    \/ \E mnp \in Pings, re \in BOOLEAN, so \in BOOLEAN : AdmitMnp(mnp, re, so)
    \/ \E i \in 1..2, f \in BOOLEAN : DoCheck(i, f)
    \/ Return
    \/ Tick
    \/ ChainUpdate("o1")

Spec == Init /\ [][Next]_vars

-----------------------------------------------------------------------------
(* Announcements only, every combination of faults, two outpoints.         *)

FaultyPings ==
    {NullPing, Ping("o1", Base, GoodBlock, "m1"), Ping("o1", Base, GoodBlock, "mX"),
     Ping("o1", Base - 3600, GoodBlock, "m1")}

AdmitAnnouncements ==
    { Mnb("o1", a, ck, mk, st, <<sk, st>>, pv, q, sse)
      : a \in {PubAddr, BadPortAddr}, ck \in {"c1", "kBad"}, mk \in {"m1", "kBad"},
        st \in {Base + 1, Base + 3601}, sk \in {"c1", "kBad"},
        pv \in {1, 2, 3}, q \in FaultyPings, sse \in BOOLEAN }
    \cup { Honest(o, "c1", "m1", st, pt)
           : o \in Outpoints, st \in {Base, Base + 1}, pt \in {Base, Base + 601} }

NextAdmit ==
    \/ \E mnb \in AdmitAnnouncements : AdmitMnb(mnb)
    \/ \E i \in 1..2, f \in BOOLEAN : DoCheck(i, f)
    \/ Return
    \/ ChainUpdate("o1")

SpecAdmit == Init /\ [][NextAdmit]_vars

-----------------------------------------------------------------------------
(* Admission with the seen caches in use: the message handler notes an     *)
(* announcement under its hash before it admits it, and the sync counts    *)
(* the announcements it has been offered.                                  *)

\* note_seen_announcement: the handler stores the announcement under its hash
\* (and, with sync, masternodeSync.AddedMasternodeList counts it)
NoteSeen(mnb, sync) ==
    /\ last = NoLast
    /\ mapSeenMasternodeBroadcast' =
           MapInsert(mapSeenMasternodeBroadcast, MnbGetHash(mnb), mnb)
    /\ mapSeenSyncMNB' =
           IF sync THEN MapInsert(mapSeenSyncMNB, MnbGetHash(mnb), 1) ELSE mapSeenSyncMNB
    /\ \/ MnbGetHash(mnb) \notin DOMAIN mapSeenMasternodeBroadcast
       \/ sync /\ MnbGetHash(mnb) \notin DOMAIN mapSeenSyncMNB
    /\ UNCHANGED <<vMasternodes, mapSeenMasternodePing, spendable, mapCacheBlockHashes,
                   vChain, now,
                   vecCollaterals, nMoneySupply, maxMoneyOut, last, hiSig, pc, tmn, upd>>

SeenAnnouncements ==
    { Honest("o1", "c1", "m1", st, pt) : st \in {Base, Base + 1}, pt \in {Base, Base + 601} }
    \cup { [Honest("o1", "c1", "m1", Base + 1, Base) EXCEPT !.addr = LanAddr] }

SeenPings ==
    { Ping("o1", st, GoodBlock, "m1") : st \in {Base + 601, Base + 1200} }
    \cup { Ping("o1", Base + 1200, GoodBlock, "mX"), Ping("o1", Base + 1200, DeepBlock, "m1") }

NextSeen ==
    \/ \E mnb \in SeenAnnouncements, sync \in BOOLEAN : NoteSeen(mnb, sync)
    \/ \E mnb \in SeenAnnouncements : AdmitMnb(mnb)
    \/ \E mnp \in SeenPings, re \in BOOLEAN : AdmitMnp(mnp, re, FALSE)
    \/ Return
    \/ Tick
    \/ ChainUpdate("o1")

SpecSeen == Init /\ [][NextSeen]_vars

-----------------------------------------------------------------------------
(* Scoring: GetBlockHash with its cache, and CMasternode::CalculateScore.  *)
(* Hashes and scores are numbers below HashSpace; SHA256d is a polynomial  *)
(* over the numbers fed to the hash writer.                                *)

\* the chain grows up to this height in the scoring specification
MaxScoreTip == 4
HashSpace == 65521
\* CHashWriter: ss << a << b ...; ss.GetHash()
RECURSIVE HashOf(_)
HashOf(fed) ==
    IF fed = <<>> THEN 7
    ELSE (HashOf(SubSeq(fed, 1, Len(fed) - 1)) * 31 + fed[Len(fed)] + 1) % HashSpace
\* vin.prevout of each outpoint: transaction hash and output index
prevout == [o \in Outpoints |-> IF o = "o1" THEN [hash |-> 501, n |-> 0]
                                              ELSE [hash |-> 777, n |-> 1]]

\* chainActive.Tip(): its height, -1 when the chain has no block
TipOf(chain) == Len(chain) - 1
BlockHashAt(chain, height) == chain[height + 1]

\* lines 46-60: from the block BlockReading, n blocks walked so far
RECURSIVE WalkBack(_, _, _, _)
WalkBack(chain, BlockReading, n, nBlocksAgo) ==
    IF BlockReading <= 0
    THEN [ok |-> FALSE, hash |-> 0]
    ELSE IF n >= nBlocksAgo
    THEN [ok |-> TRUE, hash |-> BlockHashAt(chain, BlockReading)]
    ELSE WalkBack(chain, BlockReading - 1, n + 1, nBlocksAgo)

\* GetBlockHash counting the blocks back from the tip itself
GetBlockHash_AtHeight(cache, chain, nBlockHeight) ==
    IF TipOf(chain) < 0 \/ TipOf(chain) = 0
    THEN [ok |-> FALSE, hash |-> 0, cache |-> cache]
    ELSE
    LET h == IF nBlockHeight = 0 THEN TipOf(chain) ELSE nBlockHeight
        nBlocksAgo == IF h > 0 THEN TipOf(chain) - h ELSE 0
        found == WalkBack(chain, TipOf(chain), 0, nBlocksAgo)
    IN  IF h \in DOMAIN cache
        THEN [ok |-> TRUE, hash |-> cache[h], cache |-> cache]
        ELSE IF nBlocksAgo < 0
        THEN [ok |-> FALSE, hash |-> 0, cache |-> cache]
        ELSE IF found.ok
        THEN [ok |-> TRUE, hash |-> found.hash,
              cache |-> [x \in DOMAIN cache \cup {h} |->
                            IF x = h THEN found.hash ELSE cache[x]]]
        ELSE [ok |-> FALSE, hash |-> 0, cache |-> cache]

\* GetBlockHash looking up and filling the cache under the height as asked,
\* 0 included, and only then taking 0 for the tip's height
GetBlockHash_KeyAsAsked(cache, chain, nBlockHeight) ==
    IF TipOf(chain) < 0 \/ TipOf(chain) = 0
    THEN [ok |-> FALSE, hash |-> 0, cache |-> cache]
    ELSE
    LET h == IF nBlockHeight = 0 THEN TipOf(chain) ELSE nBlockHeight
        nBlocksAgo == IF h > 0 THEN (TipOf(chain) + 1) - h ELSE 0
        found == WalkBack(chain, TipOf(chain), 0, nBlocksAgo)
    IN  IF nBlockHeight \in DOMAIN cache
        THEN [ok |-> TRUE, hash |-> cache[nBlockHeight], cache |-> cache]
        ELSE IF nBlocksAgo < 0
        THEN [ok |-> FALSE, hash |-> 0, cache |-> cache]
        ELSE IF found.ok
        THEN [ok |-> TRUE, hash |-> found.hash,
              cache |-> [x \in DOMAIN cache \cup {nBlockHeight} |->
                            IF x = nBlockHeight THEN found.hash ELSE cache[x]]]
        ELSE [ok |-> FALSE, hash |-> 0, cache |-> cache]

\* lines 28-63
GetBlockHash(cache, chain, nBlockHeight) ==
    IF TipOf(chain) < 0 \/ TipOf(chain) = 0
    THEN [ok |-> FALSE, hash |-> 0, cache |-> cache]
    ELSE
    LET h == IF nBlockHeight = 0 THEN TipOf(chain) ELSE nBlockHeight
        nBlocksAgo == IF h > 0 THEN (TipOf(chain) + 1) - h ELSE 0
        found == WalkBack(chain, TipOf(chain), 0, nBlocksAgo)
    IN  IF h \in DOMAIN cache
        THEN [ok |-> TRUE, hash |-> cache[h], cache |-> cache]
        ELSE IF nBlocksAgo < 0
        THEN [ok |-> FALSE, hash |-> 0, cache |-> cache]
        ELSE IF found.ok
        THEN [ok |-> TRUE, hash |-> found.hash,
              cache |-> [x \in DOMAIN cache \cup {h} |->
                            IF x = h THEN found.hash ELSE cache[x]]]
        ELSE [ok |-> FALSE, hash |-> 0, cache |-> cache]

\* lines 170-181: the score of an outpoint against the block hash
ScoreFrom(hash, vin) ==
    LET aux == (prevout[vin].hash + prevout[vin].n) % HashSpace
        hash2 == HashOf(<<hash>>)
        hash3 == HashOf(<<hash, aux>>)
    IN  IF hash3 > hash2 THEN hash3 - hash2 ELSE hash2 - hash3

\* lines 155-182; UINT256_ZERO is 0
CalculateScore(cache, chain, vin, nBlockHeight) ==
    IF TipOf(chain) < 0
    THEN [score |-> 0, cache |-> cache]
    ELSE LET got == GetBlockHash(cache, chain, nBlockHeight)
         IN  IF ~got.ok
             THEN [score |-> 0, cache |-> got.cache]
             ELSE [score |-> ScoreFrom(got.hash, vin), cache |-> got.cache]

ScoreHeights == (0 - 1)..(MaxScoreTip + 2)

\* the payment election asks for the score of a record at a height
CalcScore(vin, nBlockHeight) ==
    /\ last = NoLast
    /\ LET r == CalculateScore(mapCacheBlockHashes, vChain, vin, nBlockHeight)
       IN  /\ mapCacheBlockHashes' = r.cache
           /\ last' = [op |-> "score", vin |-> vin, nBlockHeight |-> nBlockHeight,
                       pre |-> [cache |-> mapCacheBlockHashes], score |-> r.score]
    /\ UNCHANGED <<vMasternodes, mapSeenMasternodeBroadcast, mapSeenMasternodePing,
                   mapSeenSyncMNB, spendable, vChain, now,
                   vecCollaterals, nMoneySupply, maxMoneyOut, hiSig, pc, tmn, upd>>

\* a block is connected to the tip of the active chain
ConnectBlock ==
    /\ last = NoLast
    /\ TipOf(vChain) < MaxScoreTip
    /\ vChain' = Append(vChain, MainHash(Len(vChain)))
    /\ UNCHANGED <<vMasternodes, mapSeenMasternodeBroadcast, mapSeenMasternodePing,
                   mapSeenSyncMNB, spendable, mapCacheBlockHashes, now,
                   vecCollaterals, nMoneySupply, maxMoneyOut, last, hiSig,
                   pc, tmn, upd>>

\* the node starts with no block at all
InitScore ==
    /\ vMasternodes = <<>>
    /\ mapSeenMasternodeBroadcast = <<>>
    /\ mapSeenMasternodePing = <<>>
    /\ mapSeenSyncMNB = <<>>
    /\ mapCacheBlockHashes = <<>>
    /\ vChain = <<>>
    /\ spendable = [o \in Outpoints |-> TRUE]
    /\ vecCollaterals = <<>>
    /\ nMoneySupply = 0
    /\ maxMoneyOut = CapCoins
    /\ now = Base
    /\ last = NoLast
    /\ hiSig = [o \in Outpoints |-> 0]
    /\ pc = <<>>
    /\ tmn = <<>>
    /\ upd = <<>>

NextScore ==
    \/ \E vin \in Outpoints, h \in ScoreHeights : CalcScore(vin, h)
    \/ ConnectBlock
    \/ Return

SpecScore == InitScore /\ [][NextScore]_vars

\* hash of the block a competing branch has at height h
ForkHash(h) == 3000 + h
\* a reorganisation replaces the blocks from height fork upwards by those of the
\* other branch and invalidates the block-hash cache as a whole
Reorg(fork) ==
    /\ last = NoLast
    /\ fork >= 1
    /\ fork <= TipOf(vChain)
    /\ vChain' = [k \in DOMAIN vChain |->
                     IF k - 1 < fork THEN vChain[k]
                     ELSE IF vChain[k] = MainHash(k - 1) THEN ForkHash(k - 1)
                     ELSE MainHash(k - 1)]
    /\ mapCacheBlockHashes' = <<>>
    /\ UNCHANGED <<vMasternodes, mapSeenMasternodeBroadcast, mapSeenMasternodePing,
                   mapSeenSyncMNB, spendable, now,
                   vecCollaterals, nMoneySupply, maxMoneyOut, last, hiSig, pc, tmn, upd>>

NextReorg ==
    \/ \E vin \in Outpoints, h \in ScoreHeights : CalcScore(vin, h)
    \/ ConnectBlock
    \/ \E fork \in 1..MaxScoreTip : Reorg(fork)
    \/ Return

SpecReorg == InitScore /\ [][NextReorg]_vars

-----------------------------------------------------------------------------
(* Schedules: the collateral by height, the list of its changes, and the   *)
(* block value.  Amounts are counted in whole coins (the code's amounts    *)
(* are these numbers times COIN).                                          *)

\* lines 340-396: <<threshold, amount>>, in the order the code tests them
CollateralTable ==
    <<
     <<53000000, 100000>>, <<52999999, 106921>>, <<51999999, 112549>>, <<50999999, 118472>>,
     <<49999999, 124708>>, <<48999999, 131271>>, <<47999999, 138180>>, <<46999999, 145453>>,
     <<45999999, 153108>>, <<44999999, 161166>>, <<43999999, 169649>>, <<42999999, 178578>>,
     <<41999999, 187977>>, <<40999999, 197870>>, <<39999999, 208284>>, <<38999999, 219247>>,
     <<37999999, 230786>>, <<36999999, 242933>>, <<35999999, 255719>>, <<34999999, 269177>>,
     <<33999999, 283345>>, <<32999999, 298258>>, <<31999999, 313955>>, <<30999999, 330479>>,
     <<29999999, 347873>>, <<28999999, 366182>>, <<27999999, 385455>>, <<26999999, 405742>>,
     <<25999999, 427097>>, <<24999999, 449576>>, <<23999999, 473237>>, <<22999999, 498145>>,
     <<21999999, 524363>>, <<20999999, 551961>>, <<19999999, 581011>>, <<18999999, 611591>>,
     <<17999999, 555992>>, <<16999999, 505447>>, <<15999999, 459497>>, <<14999999, 417725>>,
     <<13999999, 379750>>, <<12999999, 345227>>, <<11999999, 313843>>, <<10999999, 285312>>,
     <<9999999, 259374>>, <<8999999, 235795>>, <<7999999, 214359>>, <<6999999, 194872>>,
     <<5999999, 177156>>, <<4999999, 161051>>, <<3999999, 146410>>, <<2999999, 133100>>,
     <<1999999, 121000>>, <<999999, 110000>>, <<1, 100000>>
    >>

\* lines 339-398; row is the test reached
RECURSIVE CollateralFrom(_, _)
CollateralFrom(row, nHeight) ==
    IF row > Len(CollateralTable) THEN 0
    ELSE IF nHeight > CollateralTable[row][1] THEN CollateralTable[row][2]
    ELSE CollateralFrom(row + 1, nHeight)

\* the collateral changing one block early, at the threshold itself
GetMasternodeNodeCollateral_AtThreshold(nHeight) ==
    LET hit == {r \in DOMAIN CollateralTable : nHeight >= CollateralTable[r][1]}
    IN  IF hit = {} THEN 0
        ELSE CollateralTable[CHOOSE r \in hit : \A q \in hit : r <= q][2]

GetMasternodeNodeCollateral(nHeight) == CollateralFrom(1, nHeight)

\* line 604: the scan stops before this height
ScanEnd == 9999999
\* The loop of lines 604-611 visits every height below ScanEnd.  Between two
\* heights that follow a threshold of the table every test of lines 340-396
\* has the same outcome, so c = prev there and the body does nothing: the
\* scan goes from one such height to the next.
NextScanHeight(i) ==
    LET ahead == {CollateralTable[r][1] + 1 : r \in DOMAIN CollateralTable} \cap (i + 1)..ScanEnd
    IN  IF ahead = {} THEN ScanEnd ELSE CHOOSE h \in ahead : \A g \in ahead : h <= g

\* lines 604-611, from height i on
RECURSIVE ScanCollaterals(_, _, _)
ScanCollaterals(i, prev, vec) ==
    IF ~(i < ScanEnd) THEN vec
    ELSE LET c == GetMasternodeNodeCollateral(i)
         IN  IF prev # c
             THEN ScanCollaterals(NextScanHeight(i), c, Append(vec, <<i, c>>))
             ELSE ScanCollaterals(NextScanHeight(i), prev, vec)

\* lines 615-620 from entry k of the list
RECURSIVE NextCollateralFrom(_, _, _)
NextCollateralFrom(vec, k, nHeight) ==
    IF k > Len(vec) THEN <<-1, -1>>
    ELSE IF vec[k][1] > nHeight THEN <<vec[k][1] - nHeight, vec[k][2]>>
    ELSE NextCollateralFrom(vec, k + 1, nHeight)

\* the next change looked up with >= in place of >
GetNextMasternodeCollateral_AtOrAbove(vec, nHeight) ==
    LET hit == {k \in DOMAIN vec : vec[k][1] >= nHeight}
    IN  IF hit = {} THEN <<-1, -1>>
        ELSE LET k == CHOOSE k \in hit : \A q \in hit : k <= q
             IN  <<vec[k][1] - nHeight, vec[k][2]>>

GetNextMasternodeCollateral(vec, nHeight) == NextCollateralFrom(vec, 1, nHeight)

\* lines 414-583: <<last height of the band, subsidy>>, in the order tested
BlockValueTable ==
    <<
     <<1000, 100>>, <<2700, 110>>, <<999999, 100>>, <<1999999, 110>>,
     <<2999999, 121>>, <<3999999, 133>>, <<4999999, 146>>, <<5999999, 161>>,
     <<6999999, 177>>, <<7999999, 195>>, <<8999999, 214>>, <<9999999, 236>>,
     <<10999999, 259>>, <<11999999, 285>>, <<12999999, 314>>, <<13999999, 345>>,
     <<14999999, 380>>, <<15999999, 418>>, <<16999999, 459>>, <<17999999, 505>>,
     <<18999999, 556>>, <<19999999, 612>>, <<20999999, 581>>, <<21999999, 552>>,
     <<22999999, 524>>, <<23999999, 498>>, <<24999999, 473>>, <<25999999, 450>>,
     <<26999999, 427>>, <<27999999, 406>>, <<28999999, 385>>, <<29999999, 366>>,
     <<30999999, 348>>, <<31999999, 330>>, <<32999999, 314>>, <<33999999, 298>>,
     <<34999999, 283>>, <<35999999, 269>>, <<36999999, 256>>, <<37999999, 243>>,
     <<38999999, 231>>, <<39999999, 219>>, <<40999999, 209>>, <<41999999, 198>>,
     <<42999999, 188>>, <<43999999, 179>>, <<44999999, 170>>, <<45999999, 161>>,
     <<46999999, 153>>, <<47999999, 145>>, <<48999999, 138>>, <<49999999, 131>>,
     <<50999999, 125>>, <<51999999, 118>>, <<52999999, 113>>, <<53999999, 107>>
    >>

RECURSIVE SubsidyFrom(_, _)
SubsidyFrom(row, nHeight) ==
    IF row > Len(BlockValueTable) THEN 100
    ELSE IF nHeight <= BlockValueTable[row][1] THEN BlockValueTable[row][2]
    ELSE SubsidyFrom(row + 1, nHeight)

\* lines 411-586: nSubsidy before the supply cap is applied
TableSubsidy(nHeight) == IF nHeight = 1 THEN 400200 ELSE SubsidyFrom(1, nHeight)

\* lines 401-593
GetBlockValue(nHeight, supply, cap) ==
    IF supply >= cap THEN 0
    ELSE IF supply + TableSubsidy(nHeight) > cap
    THEN supply + TableSubsidy(nHeight) - cap
    ELSE TableSubsidy(nHeight)

\* the supplies the schedule specification starts from
Supplies == {0, CapCoins - 300, CapCoins - 50, CapCoins - 10, CapCoins, CapCoins + 5}
\* heights around every threshold of the two tables
SchedHeights ==
    {0, 1, 2, 3, 1000, 1001, 2700, 2701, 9500000}
    \cup { k * 1000000 + d : k \in 1..55, d \in {0 - 1, 0, 1} }

InitSched ==
    /\ vMasternodes = <<>>
    /\ mapSeenMasternodeBroadcast = <<>>
    /\ mapSeenMasternodePing = <<>>
    /\ mapSeenSyncMNB = <<>>
    /\ mapCacheBlockHashes = <<>>
    /\ vChain = <<>>
    /\ spendable = [o \in Outpoints |-> TRUE]
    /\ vecCollaterals = <<>>
    /\ nMoneySupply \in Supplies
    /\ maxMoneyOut = CapCoins
    /\ now = Base
    /\ last = NoLast
    /\ hiSig = [o \in Outpoints |-> 0]
    /\ pc = <<>>
    /\ tmn = <<>>
    /\ upd = <<>>

\* CMasternode::InitMasternodeCollateralList, called once at startup
InitMasternodeCollateralList ==
    /\ last = NoLast
    /\ vecCollaterals = <<>>
    /\ vecCollaterals' = ScanCollaterals(0, 0 - 1, vecCollaterals)
    /\ UNCHANGED <<vMasternodes, mapSeenMasternodeBroadcast, mapSeenMasternodePing,
                   mapSeenSyncMNB, spendable, mapCacheBlockHashes, vChain, now,
                   nMoneySupply, maxMoneyOut, last, hiSig, pc, tmn, upd>>

\* a caller asks for the collateral of a height and for its next change
AskCollateral(nHeight) ==
    /\ last = NoLast
    /\ last' = [op |-> "collateral", nHeight |-> nHeight,
                amount |-> GetMasternodeNodeCollateral(nHeight),
                listed |-> vecCollaterals # <<>>,
                next |-> GetNextMasternodeCollateral(vecCollaterals, nHeight)]
    /\ UNCHANGED <<vMasternodes, mapSeenMasternodeBroadcast, mapSeenMasternodePing,
                   mapSeenSyncMNB, spendable, mapCacheBlockHashes, vChain, now,
                   vecCollaterals, nMoneySupply, maxMoneyOut, hiSig, pc, tmn, upd>>

\* a caller asks for the block value of a height
AskBlockValue(nHeight) ==
    /\ last = NoLast
    /\ last' = [op |-> "value", nHeight |-> nHeight,
                value |-> GetBlockValue(nHeight, nMoneySupply, maxMoneyOut)]
    /\ UNCHANGED <<vMasternodes, mapSeenMasternodeBroadcast, mapSeenMasternodePing,
                   mapSeenSyncMNB, spendable, mapCacheBlockHashes, vChain, now,
                   vecCollaterals, nMoneySupply, maxMoneyOut, hiSig, pc, tmn, upd>>

NextSched ==
    \/ InitMasternodeCollateralList
    \/ \E h \in SchedHeights : AskCollateral(h)
    \/ \E h \in SchedHeights : AskBlockValue(h)
    \/ Return

SpecSched == InitSched /\ [][NextSched]_vars

\* Issuing coins block by block from an empty supply: the block of the next
\* height is connected and its block value is added to the supply.
MaxMintHeight == 8
MaxMoneyOuts == {100, 300000} \cup {400200 + 10 * k : k \in 0..60}

InitMint ==
    /\ vMasternodes = <<>>
    /\ mapSeenMasternodeBroadcast = <<>>
    /\ mapSeenMasternodePing = <<>>
    /\ mapSeenSyncMNB = <<>>
    /\ mapCacheBlockHashes = <<>>
    /\ vChain = <<MainHash(0)>>
    /\ spendable = [o \in Outpoints |-> TRUE]
    /\ vecCollaterals = <<>>
    /\ nMoneySupply = 0
    /\ maxMoneyOut \in MaxMoneyOuts
    /\ now = Base
    /\ last = NoLast
    /\ hiSig = [o \in Outpoints |-> 0]
    /\ pc = <<>>
    /\ tmn = <<>>
    /\ upd = <<>>

MintBlock ==
    /\ TipOf(vChain) < MaxMintHeight
    /\ vChain' = Append(vChain, MainHash(Len(vChain)))
    /\ nMoneySupply' = nMoneySupply + GetBlockValue(TipOf(vChain) + 1, nMoneySupply, maxMoneyOut)
    /\ UNCHANGED <<vMasternodes, mapSeenMasternodeBroadcast, mapSeenMasternodePing,
                   mapSeenSyncMNB, spendable, mapCacheBlockHashes, now,
                   vecCollaterals, maxMoneyOut, last, hiSig, pc, tmn, upd>>

NextMint == MintBlock

SpecMint == InitMint /\ [][NextMint]_vars

-----------------------------------------------------------------------------
(* Two threads inside CheckAndUpdate for the same outpoint.  No statement  *)
(* of CheckAndUpdate, UpdateFromNewBroadcast or Check takes the record's   *)
(* cs, so the threads interleave statement by statement.                   *)
(*   pc[t]   the statement thread t is at                                  *)
(*   tmn[t]  the announcement thread t is handling                         *)
(*   upd[t]  thread t has written the record (lines 133-139)               *)

Threads == {1, 2}

\* the record both announcements are about: stored at Base, enabled since
StoredRecord ==
    [MasternodeFromBroadcast(Honest("o1", "c1", "m1", Base, Base + 601))
        EXCEPT !.lastTimeChecked = Base]

ConcAnnouncements ==
    { Honest("o1", "c1", mk, st, Base + 601) : mk \in {"m1", "m2"}, st \in {Base, Base + 1, Base + 2} }
    \cup { [Honest("o1", "c1", "m1", Base + 1, Base + 601) EXCEPT !.protocolVersion = 1] }

InitConc ==
    /\ vMasternodes = <<StoredRecord>>
    /\ mapSeenMasternodeBroadcast = <<>>
    /\ mapSeenMasternodePing = <<>>
    /\ mapSeenSyncMNB = <<>>
    /\ mapCacheBlockHashes = <<>>
    /\ vChain = [k \in 1..(TipHeight + 1) |-> MainHash(k - 1)]
    /\ spendable = [o \in Outpoints |-> TRUE]
    /\ vecCollaterals = <<>>
    /\ nMoneySupply = 0
    /\ maxMoneyOut = CapCoins
    /\ now = Base + 400
    /\ last = NoLast
    /\ hiSig = [o \in Outpoints |-> IF o = "o1" THEN Base ELSE 0]
    /\ pc = [t \in Threads |-> "start"]
    /\ tmn \in [Threads -> ConcAnnouncements]
    /\ upd = [t \in Threads |-> FALSE]

\* lines 812-866 let the announcement through
PassesOwnChecks(mnb) ==
    \A r \in MnbCheckAndUpdate(TheWorld, mnb, 0, now, spendable) :
        r.why \notin {"mnb-future", "mnb-ping", "mnb-protocol", "mnb-pubkey", "mnb-pubkey2",
                      "mnb-scriptsig", "mnb-sig", "mnb-port"}

Goto(t, label) == pc' = [pc EXCEPT ![t] = label]

ThreadIdle == <<vMasternodes, mapSeenMasternodeBroadcast, mapSeenMasternodePing,
                mapSeenSyncMNB, spendable, mapCacheBlockHashes, vChain,
                now,
                   vecCollaterals, nMoneySupply, maxMoneyOut, last, hiSig, tmn, upd>>

\* lines 812-866
TChecks(t) ==
    /\ pc[t] = "start"
    /\ Goto(t, IF PassesOwnChecks(tmn[t]) THEN "find" ELSE "failed")
    /\ UNCHANGED ThreadIdle

\* lines 869-880: Find, and the comparison with the stored sigTime
TFind(t) ==
    /\ pc[t] = "find"
    /\ Goto(t, IF Find(vMasternodes, tmn[t].vin) = 0 THEN "accepted"
                ELSE IF vMasternodes[Find(vMasternodes, tmn[t].vin)].sigTime >= tmn[t].sigTime
                THEN "rejected" ELSE "enabled")
    /\ UNCHANGED ThreadIdle

\* line 883
TEnabled(t) ==
    /\ pc[t] = "enabled"
    /\ Goto(t, IF IsEnabled(vMasternodes[Find(vMasternodes, tmn[t].vin)])
                THEN "match" ELSE "accepted")
    /\ UNCHANGED ThreadIdle

\* line 887
TMatch(t) ==
    /\ pc[t] = "match"
    /\ LET pmn == vMasternodes[Find(vMasternodes, tmn[t].vin)]
       IN  Goto(t, IF /\ pmn.pubKeyCollateralAddress = tmn[t].pubKeyCollateralAddress
                      /\ ~IsBroadcastedWithin(pmn, MASTERNODE_MIN_MNB_SECONDS, now)
                   THEN "newer" ELSE "accepted")
    /\ UNCHANGED ThreadIdle

\* line 132
TNewer(t) ==
    /\ pc[t] = "newer"
    /\ Goto(t, IF tmn[t].sigTime > vMasternodes[Find(vMasternodes, tmn[t].vin)].sigTime
                THEN "write" ELSE "accepted")
    /\ UNCHANGED ThreadIdle

\* lines 133-139
TWrite(t) ==
    /\ pc[t] = "write"
    /\ LET i == Find(vMasternodes, tmn[t].vin)
       IN  vMasternodes' = [vMasternodes EXCEPT
                               ![i].pubKeyMasternode = tmn[t].pubKeyMasternode,
                               ![i].pubKeyCollateralAddress = tmn[t].pubKeyCollateralAddress,
                               ![i].sigTime = tmn[t].sigTime,
                               ![i].vchSig = tmn[t].vchSig,
                               ![i].protocolVersion = tmn[t].protocolVersion,
                               ![i].addr = tmn[t].addr,
                               ![i].lastTimeChecked = 0]
    /\ upd' = [upd EXCEPT ![t] = TRUE]
    /\ hiSig' = HiSig(vMasternodes', hiSig)
    /\ Goto(t, "ping")
    /\ UNCHANGED <<mapSeenMasternodeBroadcast, mapSeenMasternodePing, mapSeenSyncMNB,
                   spendable, mapCacheBlockHashes, vChain, now,
                   vecCollaterals, nMoneySupply, maxMoneyOut, last, tmn>>

\* lines 141-144: the embedded ping
TPing(t) ==
    /\ pc[t] = "ping"
    /\ LET i == Find(vMasternodes, tmn[t].vin)
       IN  \E r \in MnpCheckAndUpdate(TheWorld, tmn[t].lastPing, 0, FALSE, FALSE,
                                      now, spendable) :
              IF r.ret
              THEN /\ vMasternodes' = [r.w.reg EXCEPT ![i].lastPing = tmn[t].lastPing]
                   /\ mapSeenMasternodePing' =
                          MapInsert(r.w.seenMnp, MnpGetHash(tmn[t].lastPing), tmn[t].lastPing)
                   /\ mapSeenMasternodeBroadcast' = r.w.seenMnb
              ELSE /\ vMasternodes' = r.w.reg
                   /\ mapSeenMasternodePing' = r.w.seenMnp
                   /\ mapSeenMasternodeBroadcast' = r.w.seenMnb
    /\ Goto(t, "check")
    /\ UNCHANGED <<mapSeenSyncMNB, spendable, mapCacheBlockHashes, vChain, now,
                   vecCollaterals, nMoneySupply, maxMoneyOut, last,
                   hiSig, tmn, upd>>

\* lines 891-893: Check, and the relay of an enabled record
TCheck(t) ==
    /\ pc[t] = "check"
    /\ LET i == Find(vMasternodes, tmn[t].vin)
       IN  \E c \in Check(vMasternodes[i], FALSE, now, spendable) :
              vMasternodes' = [vMasternodes EXCEPT ![i] = c.mn]
    /\ Goto(t, "accepted")
    /\ UNCHANGED <<mapSeenMasternodeBroadcast, mapSeenMasternodePing, mapSeenSyncMNB,
                   spendable, mapCacheBlockHashes, vChain, now,
                   vecCollaterals, nMoneySupply, maxMoneyOut, last,
                   hiSig, tmn, upd>>

NextConc ==
    \E t \in Threads :
        \/ TChecks(t)
        \/ TFind(t)
        \/ TEnabled(t)
        \/ TMatch(t)
        \/ TNewer(t)
        \/ TWrite(t)
        \/ TPing(t)
        \/ TCheck(t)

SpecConc == InitConc /\ [][NextConc]_vars

-----------------------------------------------------------------------------
(* Properties.  last holds the handler that ran last, the message it got   *)
(* and the world it found; a property over last speaks about that call.    *)

Range(seq) == {seq[k] : k \in DOMAIN seq}
IsMnb == last.op \in {"mnb", "replay"}
\* the record of outpoint o before and after the call
HadRec(o) == Find(last.pre.reg, o) # 0
PreRec(o) == last.pre.reg[Find(last.pre.reg, o)]
HasRec(o) == Find(vMasternodes, o) # 0
CurRec(o) == vMasternodes[Find(vMasternodes, o)]
\* what an announcement fixes in a record
Announced(mn) ==
    <<mn.vin, mn.addr, mn.pubKeyCollateralAddress, mn.pubKeyMasternode, mn.sigTime,
      mn.vchSig, mn.protocolVersion>>
\* CheckInputsAndAdd got as far as dropping the record that was not enabled
Dropped ==
    last.whyAdd \in {"add-nolock", "add-inputs", "add-depth", "add-sigtime", "add-ok"}

\* C1 as stated: a record in VIN_SPENT keeps its state, sigTime, lastPing, keys
\* and address through every later call, and is neither removed nor replaced.
C1_VinSpentTerminal ==
    last.op # "none" =>
        \A o \in Outpoints :
            (HadRec(o) /\ PreRec(o).activeState = MASTERNODE_VIN_SPENT) =>
                /\ HasRec(o)
                /\ CurRec(o).activeState = MASTERNODE_VIN_SPENT
                /\ Announced(CurRec(o)) = Announced(PreRec(o))
                /\ CurRec(o).lastPing = PreRec(o).lastPing

\* C1 amended: while a VIN_SPENT record is in the registry, Check, the
\* announcement's CheckAndUpdate and ping admission leave its state, sigTime,
\* keys and address alone; only a ping admitted with fRequireEnabled = false
\* replaces its lastPing, and only CheckInputsAndAdd of an announcement of its
\* outpoint removes it (storing at most a fresh copy of that announcement).
C1_VinSpentFrozen ==
    last.op # "none" =>
        \A o \in Outpoints :
            (HadRec(o) /\ PreRec(o).activeState = MASTERNODE_VIN_SPENT) =>
                \/ /\ HasRec(o)
                   /\ CurRec(o).activeState = MASTERNODE_VIN_SPENT
                   /\ Announced(CurRec(o)) = Announced(PreRec(o))
                   /\ CurRec(o).lastPing # PreRec(o).lastPing =>
                        /\ last.op = "mnp"
                        /\ last.msg.vin = o
                        /\ ~last.fRequireEnabled
                        /\ ~last.fCheckSigTimeOnly
                        /\ CurRec(o).lastPing = last.msg
                        /\ ~last.ret
                \/ /\ IsMnb
                   /\ last.msg.vin = o
                   /\ Dropped
                   /\ IF last.whyAdd = "add-ok"
                      THEN HasRec(o) /\ CurRec(o) = MasternodeFromBroadcast(last.msg)
                      ELSE ~HasRec(o)

\* an accepted announcement has replaced a VIN_SPENT record by a fresh one
C1_Replaced ==
    /\ last.op = "mnb"
    /\ last.whyAdd = "add-ok"
    /\ HadRec(last.msg.vin)
    /\ PreRec(last.msg.vin).activeState = MASTERNODE_VIN_SPENT
    /\ CurRec(last.msg.vin).activeState = MASTERNODE_ENABLED

\* the Check calls the last handler made on the record of outpoint o
ChecksOn(o) ==
    IF last.op = "check" THEN (IF last.vin = o THEN {last.exit} ELSE {})
    ELSE IF last.op = "mnp" THEN (IF last.msg.vin = o THEN Range(last.checks) ELSE {})
    ELSE IF IsMnb /\ last.msg.vin = o /\ last.msg.lastPing.vin = o THEN Range(last.checks)
    ELSE {}

\* C2 as stated: every record has lastPing.sigTime >= sigTime.
C2_PingNotOlder ==
    \A i \in DOMAIN vMasternodes :
        vMasternodes[i].lastPing.sigTime >= vMasternodes[i].sigTime

\* C2 amended: a record that a Check call has just found fit for ENABLED has
\* lastPing.sigTime - sigTime >= MASTERNODE_MIN_MNP_SECONDS; nothing relates
\* the two times of a record that was stored or updated without that.
C2_EnabledByCheck ==
    last.op # "none" =>
        \A o \in Outpoints :
            (HasRec(o) /\ "enabled" \in ChecksOn(o)) =>
                /\ CurRec(o).activeState = MASTERNODE_ENABLED
                /\ CurRec(o).lastPing.sigTime - CurRec(o).sigTime
                       >= MASTERNODE_MIN_MNP_SECONDS

\* a ping was admitted and its Check set the record to ENABLED
C2_PingEnabled ==
    /\ last.op = "mnp"
    /\ last.why = "mnp-ok"
    /\ last.checks = <<"enabled">>
    /\ HadRec(last.msg.vin)
    /\ PreRec(last.msg.vin).activeState = MASTERNODE_PRE_ENABLED

\* C3 as stated: the sigTime stored for an outpoint only ever increases: it
\* is never below one stored for that outpoint before.
C3_SigTimeMonotonic ==
    \A o \in Outpoints : HasRec(o) => CurRec(o).sigTime >= hiSig[o]

\* C3 amended: while the record of an outpoint stays in the registry its
\* sigTime never decreases, and an announcement whose sigTime is not above it
\* is rejected by CheckAndUpdate and changes nothing in the registry.
C3_SigTimeWhileStored ==
    last.op # "none" =>
        /\ \A o \in Outpoints :
              (HadRec(o) /\ HasRec(o) /\ ~(IsMnb /\ last.msg.vin = o /\ Dropped)) =>
                  /\ CurRec(o).sigTime >= PreRec(o).sigTime
                  /\ Announced(CurRec(o)) # Announced(PreRec(o)) =>
                        CurRec(o).sigTime > PreRec(o).sigTime
        /\ (IsMnb /\ HadRec(last.msg.vin)
                  /\ last.msg.sigTime <= PreRec(last.msg.vin).sigTime) =>
              /\ ~last.ret
              /\ last.whyAdd = "none"
              /\ vMasternodes = last.pre.reg

\* an announcement older than the stored record was turned away
C3_OlderTurnedAway ==
    /\ last.op = "mnb"
    /\ last.why = "mnb-sigtime"
    /\ HadRec(last.msg.vin)
    /\ last.msg.sigTime < PreRec(last.msg.vin).sigTime
    /\ vMasternodes = last.pre.reg

\* the ping is inside the sigTime window and names a recent block of the chain
PingInWindow(mnp) ==
    /\ mnp.sigTime <= now + SIG_TIME_WINDOW
    /\ mnp.sigTime > now - SIG_TIME_WINDOW
PingWellFormed(mnp, mn) ==
    /\ PingInWindow(mnp)
    /\ MnpCheckSignature(mnp, mn.pubKeyMasternode)
    /\ mnp.blockHash = GoodBlock
\* the last call was the full admission of a ping for a record that was stored
PingFor ==
    /\ last.op = "mnp"
    /\ ~last.fCheckSigTimeOnly
    /\ HadRec(last.msg.vin)

\* C6 as stated: the record announced at T is PRE_ENABLED after the ping of
\* T+599, and the following valid ping of T+601 sets it to ENABLED.
C6_SecondPingEnables ==
    (/\ PingFor
     /\ PreRec(last.msg.vin).activeState = MASTERNODE_PRE_ENABLED
     /\ PreRec(last.msg.vin).lastPing.sigTime = PreRec(last.msg.vin).sigTime + 599
     /\ last.msg.sigTime = PreRec(last.msg.vin).sigTime + 601
     /\ PingWellFormed(last.msg, PreRec(last.msg.vin))
     /\ ~last.fRequireEnabled)
        => CurRec(last.msg.vin).activeState = MASTERNODE_ENABLED

\* C6 amended: a ping of T+599 that is stored leaves the record (not
\* VIN_SPENT, no shutdown) PRE_ENABLED; the following ping of T+601 comes less
\* than MASTERNODE_MIN_MNP_SECONDS - 60 after it and is dropped without score,
\* the record staying as it was.
C6_SecondPingTooEarly ==
    /\ (/\ PingFor
        /\ last.msg.sigTime = PreRec(last.msg.vin).sigTime + 599
        /\ last.why \in {"mnp-ok", "mnp-notenabled-after"}
        /\ last.checks # <<"shutdown">>
        /\ PreRec(last.msg.vin).activeState # MASTERNODE_VIN_SPENT)
          => /\ CurRec(last.msg.vin).activeState = MASTERNODE_PRE_ENABLED
             /\ CurRec(last.msg.vin).lastPing = last.msg
             /\ ~last.ret
    /\ (/\ PingFor
        /\ PreRec(last.msg.vin).lastPing.sigTime = PreRec(last.msg.vin).sigTime + 599
        /\ last.msg.sigTime = PreRec(last.msg.vin).sigTime + 601
        /\ PingInWindow(last.msg))
          => /\ ~last.ret
             /\ last.nDos = 0
             /\ last.why \in {"mnp-tooearly", "mnp-notenabled"}
             /\ vMasternodes = last.pre.reg

\* the valid ping of T+601 was dropped as too early, the record PRE_ENABLED
C6_SecondPingDropped ==
    /\ PingFor
    /\ last.why = "mnp-tooearly"
    /\ PreRec(last.msg.vin).activeState = MASTERNODE_PRE_ENABLED
    /\ PreRec(last.msg.vin).lastPing.sigTime = PreRec(last.msg.vin).sigTime + 599
    /\ last.msg.sigTime = PreRec(last.msg.vin).sigTime + 601
    /\ PingWellFormed(last.msg, PreRec(last.msg.vin))
    /\ CurRec(last.msg.vin).activeState = MASTERNODE_PRE_ENABLED

\* the last call was a forced Check, not cut short by a shutdown, of a record
\* that was not VIN_SPENT
ForcedCheck ==
    /\ last.op = "check"
    /\ last.forceCheck
    /\ last.exit # "shutdown"
    /\ PreRec(last.vin).activeState # MASTERNODE_VIN_SPENT
PingAge == now - PreRec(last.vin).lastPing.sigTime

\* C7: a forced Check of a record that is not VIN_SPENT sets REMOVE when the
\* last ping is older than MASTERNODE_REMOVAL_SECONDS, EXPIRED when it is older
\* than MASTERNODE_EXPIRATION_SECONDS but not than MASTERNODE_REMOVAL_SECONDS,
\* and sets neither state otherwise.
C7_ForcedCheckAges ==
    ForcedCheck =>
        /\ PingAge > MASTERNODE_REMOVAL_SECONDS =>
              /\ last.exit = "remove"
              /\ CurRec(last.vin).activeState = MASTERNODE_REMOVE
        /\ (PingAge > MASTERNODE_EXPIRATION_SECONDS
                /\ PingAge <= MASTERNODE_REMOVAL_SECONDS) =>
              /\ last.exit = "expired"
              /\ CurRec(last.vin).activeState = MASTERNODE_EXPIRED
        /\ PingAge <= MASTERNODE_EXPIRATION_SECONDS =>
              /\ last.exit \in {"preenabled", "nolock", "inputs", "burned", "enabled"}
              /\ IF last.exit = "nolock"
                 THEN CurRec(last.vin).activeState = PreRec(last.vin).activeState
                 ELSE CurRec(last.vin).activeState
                          \notin {MASTERNODE_REMOVE, MASTERNODE_EXPIRED}

\* a forced Check found the last ping exactly MASTERNODE_REMOVAL_SECONDS old
\* and set EXPIRED
C7_ExpiredAtRemovalAge ==
    /\ ForcedCheck
    /\ PingAge = MASTERNODE_REMOVAL_SECONDS
    /\ PreRec(last.vin).activeState # MASTERNODE_EXPIRED
    /\ CurRec(last.vin).activeState = MASTERNODE_EXPIRED

\* C8 as stated: the second delivery of an accepted announcement leaves the
\* registry as the first left it and gets no misbehaviour score.
C8_ReplayIgnored ==
    last.op = "replay" =>
        /\ vMasternodes = last.pre.reg
        /\ last.nDos = 0

\* C8 amended: the same, for an announcement whose embedded ping is signed by
\* the operator key the announcement carries.
C8_ReplayOfWellSignedIgnored ==
    (/\ last.op = "replay"
     /\ MnpCheckSignature(last.msg.lastPing, last.msg.pubKeyMasternode))
        => /\ vMasternodes = last.pre.reg
           /\ last.nDos = 0

\* the announcement that was just stored came again and was turned away
C8_Replayed ==
    /\ last.op = "replay"
    /\ HadRec(last.msg.vin)
    /\ PreRec(last.msg.vin) = MasternodeFromBroadcast(last.msg)
    /\ ~last.ret
    /\ last.nDos = 0
    /\ vMasternodes = last.pre.reg

\* the existing-record rules turned away an announcement older than the record
OlderThanStored ==
    /\ IsMnb
    /\ HadRec(last.msg.vin)
    /\ last.msg.sigTime < PreRec(last.msg.vin).sigTime

\* C9 as stated: an announcement older than the stored record is rejected
\* with misbehaviour score 100.
C9_OlderScores100 ==
    (OlderThanStored /\ last.why = "mnb-sigtime") => (~last.ret /\ last.nDos = 100)

\* C9 amended: an announcement older than the stored record is rejected and
\* changes nothing; the sigTime rule itself leaves the score at 0, a score
\* comes only from an earlier check (ping, key sizes, signature).
C9_OlderRejectedWithoutScore ==
    OlderThanStored =>
        /\ ~last.ret
        /\ last.whyAdd = "none"
        /\ vMasternodes = last.pre.reg
        /\ last.why = "mnb-sigtime" => last.nDos = 0
        /\ last.nDos # 0 => last.why \in {"mnb-ping", "mnb-pubkey", "mnb-pubkey2", "mnb-sig"}

\* a well-formed older announcement met an enabled record and got score 0
C9_OlderGotNoScore ==
    /\ OlderThanStored
    /\ last.why = "mnb-sigtime"
    /\ last.nDos = 0
    /\ ~last.ret
    /\ IsEnabled(PreRec(last.msg.vin))

FirstFailure(a, reg, t) ==
    LET q == a.lastPing
        k == Find(reg, q.vin)
        e == Find(reg, a.vin)
    IN  IF a.sigTime > t + SIG_TIME_WINDOW THEN [why |-> "mnb-future", nDos |-> 1]
        ELSE IF IsNull(q) THEN [why |-> "mnb-ping", nDos |-> 0]
        ELSE IF q.sigTime > t + SIG_TIME_WINDOW \/ q.sigTime <= t - SIG_TIME_WINDOW
        THEN [why |-> "mnb-ping", nDos |-> 1]
        ELSE IF k # 0 /\ ~MnpCheckSignature(q, reg[k].pubKeyMasternode)
        THEN [why |-> "mnb-ping", nDos |-> 33]
        ELSE IF a.protocolVersion < ActiveProtocol THEN [why |-> "mnb-protocol", nDos |-> 0]
        ELSE IF ScriptSize(a.pubKeyCollateralAddress) # 25
        THEN [why |-> "mnb-pubkey", nDos |-> 100]
        ELSE IF ScriptSize(a.pubKeyMasternode) # 25
        THEN [why |-> "mnb-pubkey2", nDos |-> 100]
        ELSE IF ~a.scriptSigEmpty THEN [why |-> "mnb-scriptsig", nDos |-> 0]
        ELSE IF ~MnbCheckSignature(a)
        THEN [why |-> "mnb-sig",
              nDos |-> IF a.protocolVersion <= MIN_PEER_MNANNOUNCE THEN 0 ELSE 100]
        ELSE IF a.addr.port # DefaultPort THEN [why |-> "mnb-port", nDos |-> 0]
        ELSE IF e # 0 /\ reg[e].sigTime >= a.sigTime
        THEN [why |-> "mnb-sigtime", nDos |-> 0]
        ELSE [why |-> "pass", nDos |-> 0]

\* C10: the outcome and the score of an announcement are those of the first
\* check it fails, in the order future sigTime, embedded ping, protocol, key
\* sizes, scriptSig, signature, port, existing record; sigTime beyond
\* now + 3600 scores 1 whatever else is wrong; after a failed check the
\* registry and the seen-caches are as before and nothing is relayed.
C10_FirstFailureDecides ==
    last.op = "mnb" =>
        LET f == FirstFailure(last.msg, last.pre.reg, now)
        IN  /\ last.msg.sigTime > now + SIG_TIME_WINDOW => (~last.ret /\ last.nDos = 1)
            /\ IF f.why = "pass"
               THEN last.why \in {"mnb-new", "mnb-not-enabled", "mnb-updated",
                                  "mnb-not-newer", "mnb-no-update"}
               ELSE /\ ~last.ret
                    /\ last.why = f.why
                    /\ last.nDos = f.nDos
                    /\ last.whyAdd = "none"
                    /\ vMasternodes = last.pre.reg
                    /\ mapSeenMasternodeBroadcast = last.pre.seenMnb
                    /\ mapSeenMasternodePing = last.pre.seenMnp
                    /\ last.relay = <<>>
                    /\ last.checks = <<>>

\* an announcement from the future that also has a null ping, a bad collateral
\* key, a bad signature and a wrong port got score 1
C10_FutureWithOtherFaults ==
    /\ last.op = "mnb"
    /\ last.why = "mnb-future"
    /\ last.nDos = 1
    /\ IsNull(last.msg.lastPing)
    /\ ScriptSize(last.msg.pubKeyCollateralAddress) # 25
    /\ ~MnbCheckSignature(last.msg)
    /\ last.msg.addr.port # DefaultPort
    /\ last.pre.reg # <<>>

\* both threads have left CheckAndUpdate
BothReturned == \A t \in Threads : pc[t] \in {"failed", "rejected", "accepted"}

\* C4: of two announcements of the same sigTime, above the stored one,
\* admitted by two threads, exactly one writes the record and the other is
\* rejected by the comparison of sigTime.
C4_ExactlyOneUpdates ==
    (/\ pc # <<>>
     /\ BothReturned
     /\ tmn[1].sigTime = tmn[2].sigTime
     /\ tmn[1].sigTime > StoredRecord.sigTime
     /\ \A t \in Threads : pc[t] # "failed")
        => \E t \in Threads :
              /\ upd[t]
              /\ \A u \in Threads \ {t} : ~upd[u] /\ pc[u] = "rejected"

\* the block a ping names is in the index, on the active chain and at most
\* PING_BLOCK_AGE_MAX below the tip
PingBlockFresh(mnp) ==
    /\ mnp.blockHash \in DOMAIN mapBlockIndex
    /\ Contains(mnp.blockHash)
    /\ ChainHeight - mapBlockIndex[mnp.blockHash] <= PING_BLOCK_AGE_MAX

\* the last call was the admission of an announcement that passes checks 1-7
\* and meets an enabled, older record with its collateral key, announced more
\* than MASTERNODE_MIN_MNB_SECONDS ago
UpdateCase ==
    /\ last.op = "mnb"
    /\ FirstFailure(last.msg, last.pre.reg, now).why = "pass"
    /\ HadRec(last.msg.vin)
    /\ IsEnabled(PreRec(last.msg.vin))
    /\ PreRec(last.msg.vin).pubKeyCollateralAddress = last.msg.pubKeyCollateralAddress
    /\ ~IsBroadcastedWithin(PreRec(last.msg.vin), MASTERNODE_MIN_MNB_SECONDS, now)
MnbRelayed == <<"mnb", MnbGetHash(last.msg)>> \in Range(last.relay)
\* the announcement's ping, checked as a ping of the updated record, is stored
EmbeddedPingStored ==
    /\ last.msg.lastPing.vin = last.msg.vin
    /\ ~IsPingedWithin(PreRec(last.msg.vin), MASTERNODE_MIN_MNP_SECONDS - 60,
                       last.msg.lastPing.sigTime)
    /\ MnpCheckSignature(last.msg.lastPing, last.msg.pubKeyMasternode)
    /\ PingBlockFresh(last.msg.lastPing)

-----------------------------------------------------------------------------
(* Ping admission, CMasternodePing::CheckAndUpdate.                        *)

\* the call left the registry and the seen caches as they were and relayed nothing
NothingChanged ==
    /\ vMasternodes = last.pre.reg
    /\ mapSeenMasternodeBroadcast = last.pre.seenMnb
    /\ mapSeenMasternodePing = last.pre.seenMnp
    /\ mapSeenSyncMNB = last.pre.seenSync
    /\ last.relay = <<>>
\* the ping got past the two timestamp tests of lines 1050-1060
PingTimePassed == last.why \notin {"mnp-future", "mnp-past"}
PingInClosedWindow(mnp) ==
    /\ mnp.sigTime >= now - SIG_TIME_WINDOW
    /\ mnp.sigTime <= now + SIG_TIME_WINDOW

\* C15: ping admission passes the timestamp check exactly when sigTime lies in
\* the closed interval [now - 3600, now + 3600]; a ping outside the interval is
\* rejected with misbehaviour score 1 and changes nothing.
C15_ClosedWindow ==
    last.op = "mnp" =>
        /\ PingTimePassed <=> PingInClosedWindow(last.msg)
        /\ ~PingInClosedWindow(last.msg) =>
               ~last.ret /\ last.nDos = 1 /\ NothingChanged

\* the ping's signature does not verify under the key of the record it names
PingBadlySigned ==
    /\ HadRec(last.msg.vin)
    /\ ~MnpCheckSignature(last.msg, PreRec(last.msg.vin).pubKeyMasternode)

\* C16: with fCheckSigTimeOnly, ping admission changes no record and no seen
\* cache and relays nothing; for a ping that passed the timestamp check it fails
\* with score 33 exactly when a record of the outpoint exists and the signature
\* does not verify under that record's operator key, and succeeds otherwise.
C16_SigTimeOnly ==
    (last.op = "mnp" /\ last.fCheckSigTimeOnly) =>
        /\ NothingChanged
        /\ PingTimePassed =>
               /\ PingBadlySigned => (~last.ret /\ last.nDos = 33)
               /\ ~PingBadlySigned => (last.ret /\ last.nDos = 0)
C16_SigTimeOnlyBadSignature ==
    /\ last.op = "mnp"
    /\ last.fCheckSigTimeOnly
    /\ PingTimePassed
    /\ PingBadlySigned
    /\ last.nDos = 33

\* seconds from the stored ping to the incoming one
PingSpacing == last.msg.sigTime - PreRec(last.msg.vin).lastPing.sigTime
PingAfterPing == PingFor /\ ~IsNull(PreRec(last.msg.vin).lastPing)

\* C17: a ping admission replaces the record's lastPing only by a ping whose
\* sigTime is at least MASTERNODE_MIN_MNP_SECONDS - 60 later than the stored
\* ping's; a ping that comes earlier is dropped: no record or cache changes,
\* nothing is relayed, and no misbehaviour score is given for it.
C17_SpacingRespected ==
    PingAfterPing =>
        /\ HasRec(last.msg.vin)
        /\ CurRec(last.msg.vin).lastPing # PreRec(last.msg.vin).lastPing =>
               /\ CurRec(last.msg.vin).lastPing = last.msg
               /\ PingSpacing >= MASTERNODE_MIN_MNP_SECONDS - 60
        /\ PingSpacing < MASTERNODE_MIN_MNP_SECONDS - 60 =>
               /\ ~last.ret
               /\ NothingChanged
               /\ PingTimePassed => last.nDos = 0
C17_EarlyPingDropped ==
    /\ PingAfterPing
    /\ PingSpacing > 0
    /\ PingSpacing < MASTERNODE_MIN_MNP_SECONDS - 60
    /\ last.why = "mnp-tooearly"
    /\ PingBadlySigned

\* the ping is correctly signed and names a block that is not fresh
PingOnBadBlock ==
    /\ PingFor
    /\ ~PingBadlySigned
    /\ ~PingBlockFresh(last.msg)

\* C18: a correctly signed ping whose block hash is unknown, is off the active
\* chain or lies more than PING_BLOCK_AGE_MAX blocks below the tip is not
\* applied: the registry is unchanged, nothing is relayed and no misbehaviour
\* score is given for it.
C18_BadBlockNotApplied ==
    PingOnBadBlock =>
        /\ ~last.ret
        /\ NothingChanged
        /\ PingTimePassed => last.nDos = 0
C18_DeepBlockPingDropped ==
    /\ PingOnBadBlock
    /\ last.msg.blockHash = DeepBlock
    /\ last.why = "mnp-oldblock"
    /\ IsEnabled(PreRec(last.msg.vin))

-----------------------------------------------------------------------------
(* CheckInputsAndAdd and the seen caches.                                  *)

MsgHash == MnbGetHash(last.msg)
\* the records of the other outpoints are as they were
OthersKept ==
    \A o \in Outpoints \ {last.msg.vin} :
        /\ HasRec(o) <=> HadRec(o)
        /\ HasRec(o) => CurRec(o) = PreRec(o)
\* CheckInputsAndAdd was called and could not take cs_main
LockMissed == last.op = "mnb" /\ last.whyAdd = "add-nolock"

\* C12: when CheckInputsAndAdd cannot take cs_main it stores no record, gives
\* no misbehaviour score, removes the announcement's hash from the seen
\* announcements and returns failure.
C12_LockMissedForgets ==
    LockMissed =>
        /\ ~last.ret
        /\ last.nDos = 0
        /\ ~HasRec(last.msg.vin)
        /\ OthersKept
        /\ MsgHash \notin DOMAIN mapSeenMasternodeBroadcast
        /\ MsgHash \notin DOMAIN mapSeenSyncMNB
C12_SeenHashForgotten ==
    /\ LockMissed
    /\ MsgHash \in DOMAIN last.pre.seenMnb
    /\ MsgHash \in DOMAIN last.pre.seenSync
    /\ ~last.ret

\* C13 as stated: an admission that cannot take cs_main returns with the seen
\* announcement caches exactly as they were before the call.
C13_LockMissedKeepsCaches ==
    LockMissed =>
        /\ mapSeenMasternodeBroadcast = last.pre.seenMnb
        /\ mapSeenSyncMNB = last.pre.seenSync

\* C13 amended: an admission that cannot take cs_main returns with the seen
\* announcement caches as they were before the call except for the entry of
\* the announcement's own hash, which is removed from both.
C13_LockMissedForgetsOwnHash ==
    LockMissed =>
        /\ mapSeenMasternodeBroadcast = MapErase(last.pre.seenMnb, MsgHash)
        /\ mapSeenSyncMNB = MapErase(last.pre.seenSync, MsgHash)
C13_OtherHashesKept ==
    /\ LockMissed
    /\ MsgHash \in DOMAIN last.pre.seenMnb
    /\ mapSeenMasternodeBroadcast # <<>>
    /\ mapSeenSyncMNB # <<>>

\* C14: CheckInputsAndAdd stores no record whose collateral has fewer than
\* MASTERNODE_MIN_CONFIRMATIONS confirmations; when the depth it reads is
\* lower it returns failure, gives no misbehaviour score and removes the
\* announcement's hash from the seen announcements.
C14_ConfirmationsRequired ==
    last.op = "mnb" =>
        /\ last.whyAdd = "add-ok" => last.depth >= MASTERNODE_MIN_CONFIRMATIONS
        /\ (last.depth # -1 /\ last.depth < MASTERNODE_MIN_CONFIRMATIONS) =>
               /\ last.whyAdd = "add-depth"
               /\ ~last.ret
               /\ last.nDos = 0
               /\ ~HasRec(last.msg.vin)
               /\ OthersKept
               /\ MsgHash \notin DOMAIN mapSeenMasternodeBroadcast
               /\ MsgHash \notin DOMAIN mapSeenSyncMNB
C14_TooFewConfirmations ==
    /\ last.op = "mnb"
    /\ last.depth = MASTERNODE_MIN_CONFIRMATIONS - 1
    /\ MsgHash \in DOMAIN last.pre.seenMnb
    /\ MsgHash \notin DOMAIN mapSeenMasternodeBroadcast
    /\ ~last.ret

\* the ping passes every check of its full admission
PingPassesAll ==
    /\ PingFor
    /\ PingInWindow(last.msg)
    /\ PreRec(last.msg.vin).protocolVersion >= ActiveProtocol
    /\ last.fRequireEnabled => IsEnabled(PreRec(last.msg.vin))
    /\ ~IsPingedWithin(PreRec(last.msg.vin), MASTERNODE_MIN_MNP_SECONDS - 60, last.msg.sigTime)
    /\ ~PingBadlySigned
    /\ PingBlockFresh(last.msg)
\* the hash under which the record's announcement is cached
RecHash == MnbGetHash(CurRec(last.msg.vin))
PingRelayed == <<"mnp", MnpGetHash(last.msg)>> \in Range(last.relay)

\* C19: when a ping passes all admission checks the record's lastPing becomes
\* that ping, the seen announcement cached for the record, if there is one,
\* gets the same lastPing, one forced Check runs, and the ping is relayed if
\* and only if the record is enabled after that Check.
C19_PingApplied ==
    PingPassesAll =>
        /\ HasRec(last.msg.vin)
        /\ CurRec(last.msg.vin).lastPing = last.msg
        /\ mapSeenMasternodeBroadcast =
               IF RecHash \in DOMAIN last.pre.seenMnb
               THEN [last.pre.seenMnb EXCEPT ![RecHash].lastPing = last.msg]
               ELSE last.pre.seenMnb
        /\ Len(last.checks) = 1
        /\ last.checks[1] # "ratelimit"
        /\ PingRelayed <=> IsEnabled(CurRec(last.msg.vin))
        /\ last.ret <=> IsEnabled(CurRec(last.msg.vin))
        /\ ~PingRelayed => last.relay = <<>>
C19_SeenAnnouncementRefreshed ==
    /\ PingPassesAll
    /\ RecHash \in DOMAIN last.pre.seenMnb
    /\ last.pre.seenMnb[RecHash].lastPing # last.msg
    /\ mapSeenMasternodeBroadcast[RecHash].lastPing = last.msg
    /\ PingRelayed

-----------------------------------------------------------------------------
(* Scoring.                                                                *)

ScoreTip == TipOf(vChain)
\* the height the lookup works with: 0 stands for the tip's height
AskedHeight == IF last.nBlockHeight = 0 THEN ScoreTip ELSE last.nBlockHeight

\* C20 as stated: for 0 < h <= tip height the score is computed from the hash
\* of the active chain's block at height h, and h = 0 uses the tip's hash.
C20_ScoreFromBlockAtHeight ==
    (last.op = "score" /\ ScoreTip >= 0) =>
        /\ (0 < last.nBlockHeight /\ last.nBlockHeight <= ScoreTip) =>
               last.score = ScoreFrom(BlockHashAt(vChain, last.nBlockHeight), last.vin)
        /\ last.nBlockHeight = 0 =>
               last.score = ScoreFrom(BlockHashAt(vChain, ScoreTip), last.vin)

\* C20 amended: for 2 <= h <= tip height + 1 the score is computed from the
\* hash of the active chain's block at height h - 1, h = 0 standing for the
\* tip's height; with no tip, a tip of height 0, h = 1 or h above tip
\* height + 1 no hash is available and the score is the zero sentinel.
C20_ScoreFromBlockBelow ==
    (last.op = "score" /\ last.nBlockHeight >= 0) =>
        IF ScoreTip >= 1 /\ AskedHeight >= 2 /\ AskedHeight <= ScoreTip + 1
        THEN last.score = ScoreFrom(BlockHashAt(vChain, AskedHeight - 1), last.vin)
        ELSE last.score = 0
C20_ScoredAtTipHeight ==
    /\ last.op = "score"
    /\ last.nBlockHeight = ScoreTip
    /\ ScoreTip >= 2
    /\ last.score = ScoreFrom(BlockHashAt(vChain, ScoreTip - 1), last.vin)
    /\ last.score # ScoreFrom(BlockHashAt(vChain, ScoreTip), last.vin)
    /\ last.score # 0


\* the score a walk of the chain as it is now gives, with nothing memoized
UncachedScore == CalculateScore(<<>>, vChain, last.vin, last.nBlockHeight).score

-----------------------------------------------------------------------------
(* Schedules.                                                              *)

CollateralAsked(h) == last.op = "collateral" /\ last.nHeight = h

\* C22 as stated: collateral(999999) = 100000, collateral(1000000) = 110000,
\* collateral(18999999) = 611591 and collateral(19000000) = 581011.
C22_PublishedBoundaries ==
    /\ CollateralAsked(999999) => last.amount = 100000
    /\ CollateralAsked(1000000) => last.amount = 110000
    /\ CollateralAsked(18999999) => last.amount = 611591
    /\ CollateralAsked(19000000) => last.amount = 581011

\* C22 amended: collateral(999999) = 100000, collateral(1000000) = 110000,
\* collateral(18999999) = 555992, collateral(19000000) = 611591,
\* collateral(19999999) = 611591 and collateral(20000000) = 581011.
C22_BoundariesOfTheTable ==
    /\ CollateralAsked(999999) => last.amount = 100000
    /\ CollateralAsked(1000000) => last.amount = 110000
    /\ CollateralAsked(18999999) => last.amount = 555992
    /\ CollateralAsked(19000000) => last.amount = 611591
    /\ CollateralAsked(19999999) => last.amount = 611591
    /\ CollateralAsked(20000000) => last.amount = 581011
C22_BumpStartsAt19M ==
    /\ CollateralAsked(19000000)
    /\ last.amount = 611591

Sentinel == <<-1, -1>>
\* the height of the table's last change of amount
LastChangeHeight ==
    LET changes == {CollateralTable[r][1] + 1 : r \in DOMAIN CollateralTable}
    IN  CHOOSE h \in changes : \A g \in changes : g <= h

\* C23: whenever the next change of a height h is not the sentinel pair, its
\* number of blocks is positive, the collateral at h plus that number is the
\* amount it names, and that amount differs from the collateral at h.
C23_NextChangeIsAChange ==
    (last.op = "collateral" /\ last.nHeight >= 0 /\ last.next # Sentinel) =>
        /\ last.next[1] > 0
        /\ GetMasternodeNodeCollateral(last.nHeight + last.next[1]) = last.next[2]
        /\ GetMasternodeNodeCollateral(last.nHeight + last.next[1]) # last.amount
C23_ChangeOneBlockAhead ==
    /\ CollateralAsked(999999)
    /\ last.next = <<1, 110000>>
    /\ last.amount = 100000

\* C24: once the list of changes is built, the next change of a height h is
\* the sentinel pair only when the collateral never changes above h; below
\* the last change, as at h = 9500000, it is not the sentinel.
C24_SentinelOnlyAfterLastChange ==
    (last.op = "collateral" /\ last.listed) =>
        /\ last.next = Sentinel => last.nHeight >= LastChangeHeight
        /\ last.nHeight = 9500000 => last.next # Sentinel

ValueAsked == last.op = "value"

\* C25: when the supply is below maxMoneyOut and the supply plus the table's
\* subsidy for the height exceeds maxMoneyOut, the block value is exactly
\* maxMoneyOut minus the supply.
C25_CapLeavesRemainder ==
    ( /\ ValueAsked
      /\ nMoneySupply < maxMoneyOut
      /\ nMoneySupply + TableSubsidy(last.nHeight) > maxMoneyOut ) =>
        last.value = maxMoneyOut - nMoneySupply

\* C26: adding the block value of each successive height to a supply that
\* starts at 0, the supply never exceeds maxMoneyOut.
C26_SupplyWithinCap == nMoneySupply <= maxMoneyOut

\* C27: below the supply cap, for every height from 1000000 on the block value
\* is the collateral of that height divided by 1000, rounded to the nearest
\* whole number.
C27_ValueFollowsCollateral ==
    ( /\ ValueAsked
      /\ last.nHeight >= 1000000
      /\ nMoneySupply + TableSubsidy(last.nHeight) <= maxMoneyOut ) =>
        last.value = (GetMasternodeNodeCollateral(last.nHeight) + 500) \div 1000

-----------------------------------------------------------------------------
(* Check: shutdown and the order of the guards.                            *)

CheckCutShort ==
    /\ last.op = "check"
    /\ last.exit = "shutdown"

\* C28: with the shutdown signal set, Check, forced or not, returns without
\* changing any field of the record, activeState and lastTimeChecked included.
C28_ShutdownChangesNothing ==
    CheckCutShort =>
        /\ CurRec(last.vin) = PreRec(last.vin)
        /\ vMasternodes = last.pre.reg
\* a forced Check was cut short on a record it would otherwise have stamped
\* and moved to another state
C28_ForcedCheckCutShort ==
    /\ CheckCutShort
    /\ last.forceCheck
    /\ PreRec(last.vin).lastTimeChecked # now
    /\ \E c \in Check(PreRec(last.vin), TRUE, now, spendable) :
           c.mn.activeState # PreRec(last.vin).activeState

\* a forced Check of a record that was not VIN_SPENT, with no shutdown and
\* with cs_main obtained where it was asked for
LockedForcedCheck ==
    /\ ForcedCheck
    /\ last.exit # "nolock"
\* the state of the first guard that fires, ENABLED when none does
FirstGuardState ==
    LET pre == PreRec(last.vin)
    IN  IF PingAge > MASTERNODE_REMOVAL_SECONDS THEN MASTERNODE_REMOVE
        ELSE IF PingAge > MASTERNODE_EXPIRATION_SECONDS THEN MASTERNODE_EXPIRED
        ELSE IF pre.lastPing.sigTime - pre.sigTime < MASTERNODE_MIN_MNP_SECONDS
        THEN MASTERNODE_PRE_ENABLED
        ELSE IF ~spendable[last.vin] \/ IsBurned(pre) THEN MASTERNODE_VIN_SPENT
        ELSE MASTERNODE_ENABLED

\* C29: a forced Check of a record that is not VIN_SPENT, with no shutdown and
\* the lock obtained, sets the state of the first guard that fires in the order
\* REMOVE, EXPIRED, PRE_ENABLED, VIN_SPENT (collateral not spendable or its
\* address burned), and sets ENABLED if and only if none of them fires.
C29_FirstGuardDecides ==
    LockedForcedCheck =>
        /\ CurRec(last.vin).activeState = FirstGuardState
        /\ CurRec(last.vin) =
              [PreRec(last.vin) EXCEPT !.activeState = FirstGuardState,
                                       !.lastTimeChecked = now]
\* a forced Check found a spendable collateral whose address is burned
C29_BurnedCollateralSpent ==
    /\ LockedForcedCheck
    /\ spendable[last.vin]
    /\ PreRec(last.vin).activeState = MASTERNODE_ENABLED
    /\ CurRec(last.vin).activeState = MASTERNODE_VIN_SPENT

-----------------------------------------------------------------------------
(* CheckInputsAndAdd: what a failure leaves in the registry.               *)

\* CheckInputsAndAdd was called for the last announcement and returned false
AddFailed ==
    /\ last.op = "mnb"
    /\ last.whyAdd # "none"
    /\ ~last.ret
\* ... at the try-lock, the inputs, the confirmations or the confirmation block
AddFailedAfterLookup ==
    /\ AddFailed
    /\ last.whyAdd \in {"add-nolock", "add-inputs", "add-depth", "add-sigtime"}
KnownAtAdd == Find(last.regAdd, last.msg.vin) # 0

\* C30 as stated: every CheckInputsAndAdd call that returns failure leaves the
\* registry's records unchanged; a record that existed for the announcement's
\* outpoint before the call still exists, with the same fields, after it.
C30_FailureKeepsRecords ==
    AddFailedAfterLookup => vMasternodes = last.regAdd

\* C30 amended: every CheckInputsAndAdd call that returns failure inserts no
\* record and leaves the records of the other outpoints unchanged; a record
\* that existed for the announcement's outpoint still exists with the same
\* fields when the embedded ping was refused, and has been removed when the
\* failure is the try-lock, the inputs, the confirmations or the confirmation
\* block's time.
C30_FailureDropsKnownRecord ==
    AddFailed =>
        IF last.whyAdd = "add-ping"
        THEN vMasternodes = last.regAdd
        ELSE /\ AddFailedAfterLookup
             /\ vMasternodes = Remove(last.regAdd, last.msg.vin)
             /\ ~(KnownAtAdd /\ IsEnabled(last.regAdd[Find(last.regAdd, last.msg.vin)]))
\* the try-lock failed after the known record of the outpoint, not enabled,
\* had been dropped, with another outpoint's record left in place
C30_KnownRecordLostAtLock ==
    /\ AddFailed
    /\ last.whyAdd = "add-nolock"
    /\ KnownAtAdd
    /\ Find(vMasternodes, last.msg.vin) = 0
    /\ Len(vMasternodes) >= 1

-----------------------------------------------------------------------------
(* A ping for a record that is not enabled.                                *)

\* the full admission of a ping that passes the time window, the protocol,
\* the spacing, the signature and the block tests, for a stored record that is
\* EXPIRED, REMOVE or PRE_ENABLED, announced at least
\* MASTERNODE_MIN_MNP_SECONDS before the ping, its collateral spendable
RevivingPing ==
    /\ PingFor
    /\ PingInWindow(last.msg)
    /\ PreRec(last.msg.vin).protocolVersion >= ActiveProtocol
    /\ ~IsPingedWithin(PreRec(last.msg.vin), MASTERNODE_MIN_MNP_SECONDS - 60, last.msg.sigTime)
    /\ ~PingBadlySigned
    /\ PingBlockFresh(last.msg)
    /\ PreRec(last.msg.vin).activeState
           \in {MASTERNODE_EXPIRED, MASTERNODE_REMOVE, MASTERNODE_PRE_ENABLED}
    /\ last.msg.sigTime - PreRec(last.msg.vin).sigTime >= MASTERNODE_MIN_MNP_SECONDS
    /\ spendable[last.msg.vin]
\* with fRequireEnabled the ping is dropped and the registry stays as it was
PingDroppedNotEnabled ==
    /\ ~last.ret
    /\ last.nDos = 0
    /\ last.why = "mnp-notenabled"
    /\ vMasternodes = last.pre.reg

\* C31 as stated: a record that is EXPIRED, REMOVE or PRE_ENABLED is ENABLED
\* right after a ping admitted with fRequireEnabled = false passes all checks,
\* when the ping's sigTime is at least MASTERNODE_MIN_MNP_SECONDS after the
\* record's and the collateral is spendable; with fRequireEnabled = true the
\* same ping is dropped and the record stays as it was.
C31_PingRevives ==
    RevivingPing =>
        IF last.fRequireEnabled
        THEN PingDroppedNotEnabled
        ELSE CurRec(last.msg.vin).activeState = MASTERNODE_ENABLED

\* C31 amended: such a ping, admitted with fRequireEnabled = false, is stored
\* as the record's lastPing, and the record is ENABLED right after it when the
\* forced Check it triggers is not cut short by a shutdown, obtains cs_main,
\* and does not find the collateral address burned; cut short or without the
\* lock the record keeps its state, a burned address makes it VIN_SPENT.  With
\* fRequireEnabled = true the same ping is dropped and the record stays as
\* it was.
C31_PingRevivesWhenCheckCompletes ==
    RevivingPing =>
        IF last.fRequireEnabled
        THEN PingDroppedNotEnabled
        ELSE /\ CurRec(last.msg.vin).lastPing = last.msg
             /\ Len(last.checks) = 1
             /\ IF last.checks[1] \in {"shutdown", "nolock"}
                THEN /\ CurRec(last.msg.vin).activeState
                            = PreRec(last.msg.vin).activeState
                     /\ ~last.ret
                ELSE IF IsBurned(PreRec(last.msg.vin))
                THEN /\ CurRec(last.msg.vin).activeState = MASTERNODE_VIN_SPENT
                     /\ ~last.ret
                ELSE /\ CurRec(last.msg.vin).activeState = MASTERNODE_ENABLED
                     /\ last.ret
                     /\ PingRelayed
\* an EXPIRED record became ENABLED by a ping admitted without fRequireEnabled
C31_ExpiredRecordRevived ==
    /\ RevivingPing
    /\ ~last.fRequireEnabled
    /\ PreRec(last.msg.vin).activeState = MASTERNODE_EXPIRED
    /\ CurRec(last.msg.vin).activeState = MASTERNODE_ENABLED
    /\ PingRelayed

====
